---- MODULE Spec2Model ----
(***************************************************************************)
(* A model of slowapi's rate-limiting engine: the Limiter of               *)
(* slowapi/extension.py, the Limit/LimitGroup wrappers of                  *)
(* slowapi/wrappers.py and the middleware of slowapi/middleware.py.        *)
(*                                                                         *)
(* One request at a time travels through the middleware, the stacked       *)
(* decorator wrappers, the endpoint and the header injection.  Time, the   *)
(* reachability of the primary storage and the requests are the            *)
(* environment.  The counting backend (the `limits` package) is modelled   *)
(* from its contract: fixed-window counters keyed by the key-parts.        *)
(***************************************************************************)
EXTENDS Integers, Sequences, FiniteSets, TLC

VARIABLES
    cfg,                  \* the Limiter's configuration and registries (fixed after start-up)
    storage,              \* counters of the primary storage backend
    fb_storage,           \* counters of the in-memory fallback storage
    storage_dead,         \* Limiter._storage_dead
    check_backend_count,  \* Limiter.__check_backend_count
    last_check_backend,   \* Limiter.__last_check_backend
    now,                  \* time.time(), in seconds
    backend_up,           \* whether the primary storage answers
    tz,                   \* the server's local UTC offset (what time.mktime assumes)
    outages,              \* number of outages of the primary storage so far
    nreq,                 \* number of requests received so far
    pc,                   \* where the request in flight is
    req,                  \* the request in flight
    rstate,               \* request.state: _rate_limiting_complete, view_rate_limit
    resp,                 \* the response being built
    depth,                \* how many decorator wrappers have been entered
    mw_inject,            \* the middleware's should_inject_headers
    evals,                \* history: the evaluations made for the request in flight
    tally,                \* history: per client, the requests evaluated in the current window
    asgi,                 \* the _ASGIMiddlewareResponder of the request in flight
    conc                  \* LimitGroup.request and the worker threads resolving the group

vars == <<cfg, storage, fb_storage, storage_dead, check_backend_count,
          last_check_backend, now, backend_up, tz, outages, nreq, pc, req,
          rstate, resp, depth, mw_inject, evals, tally, asgi, conc>>

-----------------------------------------------------------------------------
(* Bounds of the model. *)

MaxRequests == 6
MaxTime == 3
MaxOutages == 1
MaxOffset == 1
MaxRetryAfter == 5
MaxDecorations == 2
MaxProbeTime == 34

(* MAX_BACKEND_CHECKS of extension.py. *)
MAX_BACKEND_CHECKS == 5

Min(a, b) == IF a < b THEN a ELSE b
Max(a, b) == IF a > b THEN a ELSE b

RECURSIVE Pow2(_)
Pow2(n) == IF n = 0 THEN 1 ELSE 2 * Pow2(n - 1)

-----------------------------------------------------------------------------
(* Limits.  A RateLimitItem is an amount per window of seconds; a Limit    *)
(* wraps it with its context (wrappers.py).                                *)

Item(amount, window) == [amount |-> amount, window |-> window, pass_always |-> FALSE]

(* Windows, in seconds. *)
SECOND == 1
MINUTE == 60

(* The granularity of an item, in seconds: the items of the model whose    *)
(* window is a number of whole minutes are per minute ("2/minute"), the    *)
(* others per second ("1/second", "2 per 3 second").                       *)
Granularity(item) == IF item.window % MINUTE = 0 THEN MINUTE ELSE SECOND

(* RateLimitItem.__lt__ of the limits package, the `<` of                  *)
(* __evaluate_limits: items are ordered by the seconds of their            *)
(* granularity, not by amount or window.                                   *)
ItemLess(a, b) == Granularity(a) < Granularity(b)

(* What spec section 4.1 says the literal "exempt" parses to. *)
ExemptItem == [amount |-> 0, window |-> 0, pass_always |-> TRUE]

Limit(item, key_func, scope, cost, override_defaults) ==
    [limit |-> item, key_func |-> key_func, scope |-> scope,
     per_method |-> FALSE, has_methods |-> FALSE, methods |-> {},
     exempt_when |-> "none", cost_fn |-> FALSE, cost |-> cost,
     override_defaults |-> override_defaults]

(* Limit.is_exempt: exempt_when(), called without an argument, if there is *)
(* one.  The predicates are those of the tests: return_true, return_false  *)
(* and dynamic(request), which has a required parameter, so that the call  *)
(* raises TypeError.                                                       *)
is_exempt(lim) ==
    CASE lim.exempt_when = "none" -> [raised |-> FALSE, v |-> FALSE]
      [] lim.exempt_when = "return_true" -> [raised |-> FALSE, v |-> TRUE]
      [] lim.exempt_when = "return_false" -> [raised |-> FALSE, v |-> FALSE]
      [] OTHER -> [raised |-> TRUE, v |-> FALSE]

(* The key functions of the tests: get_ipaddr / get_remote_address take    *)
(* the request, `lambda: "test"` does not.                                 *)
KeyFunc(key_func, request) ==
    CASE key_func = "get_ipaddr" -> request.client
      [] key_func = "const_test" -> "test"
      [] OTHER -> ""

(* A LimitGroup: a provider with the context its limits get.  Iterating it *)
(* calls the provider (a callable) or takes the string, parses it and      *)
(* yields one Limit per clause; `limits` is that result.  A provider with  *)
(* a `key` parameter is a function from the key to that result (by_key).   *)
LimitGroup(callable, limits) ==
    [callable |-> callable, keyed |-> FALSE, key_function |-> "", by_key |-> <<>>,
     malformed |-> FALSE, limits |-> limits]

KeyedLimitGroup(key_function, by_key) ==
    [callable |-> TRUE, keyed |-> TRUE, key_function |-> key_function,
     by_key |-> by_key, malformed |-> FALSE, limits |-> <<>>]

(* A group whose provider is, or returns, a string parse_many rejects. *)
MalformedLimitGroup(callable) ==
    [LimitGroup(callable, <<>>) EXCEPT !.malformed = TRUE]

(* No request: the value of LimitGroup.request until with_request sets it. *)
NoRequest ==
    [route |-> "", path |-> "", method |-> "", client |-> "", foo |-> 0, agent |-> ""]

(* What iterating a group raises before it yields a limit: the Exception   *)
(* of a keyed provider whose group has no request, the ValueError of       *)
(* parse_many, or nothing.                                                 *)
IterRaises(group, request) ==
    IF group.keyed /\ request = NoRequest THEN "Exception"
    ELSE IF group.malformed THEN "ValueError"
    ELSE "none"

(* Mutation of LimitGroupIter: a keyed provider is called with one fixed   *)
(* key, not with the key of the request.                                   *)
FixedKeyIter(group, request) ==
    IF IterRaises(group, request) # "none" THEN <<>>
    ELSE IF group.keyed THEN group.by_key[CHOOSE k \in DOMAIN group.by_key : TRUE]
    ELSE group.limits

(* LimitGroup.__iter__: the limits the group yields, with `request` the    *)
(* group's request (NoRequest unless with_request was called); none when   *)
(* the iteration raises.  (The key functions of the keyed providers of the *)
(* model take the request, as the assertion demands.)                      *)
LimitGroupIter(group, request) ==
    IF IterRaises(group, request) # "none" THEN <<>>
    ELSE IF group.keyed THEN group.by_key[KeyFunc(group.key_function, request)]
    ELSE group.limits

(* itertools.chain over groups, and whether listing it raises.  The loop   *)
(* over the dynamic limits of a route catches the ValueError of a group    *)
(* and goes on with the next: there, Chain is all there is.                *)
RECURSIVE Chain(_, _)
Chain(groups, request) ==
    IF groups = <<>> THEN <<>>
    ELSE LimitGroupIter(Head(groups), request) \o Chain(Tail(groups), request)

ChainRaises(groups, request) ==
    \E i \in 1..Len(groups) : IterRaises(groups[i], request) # "none"

-----------------------------------------------------------------------------
(* The counting backend: the fixed-window strategy over a keyed store.     *)
(* An entry is a count and the epoch at which its window ends.             *)

KeyFor(item, args) == <<args, item.amount, item.window>>

StorageLive(st, k, t) == k \in DOMAIN st /\ st[k].expiry > t

StorageGet(st, k, t) == IF StorageLive(st, k, t) THEN st[k].count ELSE 0

(* hit(item, *args, cost): add cost to the window's counter, start a new   *)
(* window if there is none, and say whether the counter is within amount.  *)
Hit(st, item, args, cost, t) ==
    IF item.pass_always THEN [st |-> st, ok |-> TRUE]
    ELSE LET k == KeyFor(item, args)
             count == StorageGet(st, k, t) + cost
             expiry == IF StorageLive(st, k, t) THEN st[k].expiry ELSE t + item.window
         IN [st |-> (k :> [count |-> count, expiry |-> expiry]) @@ st,
             ok |-> count <= item.amount]

(* get_window_stats(item, *args): (reset epoch, remaining). *)
GetWindowStats(st, item, args, t) ==
    LET k == KeyFor(item, args)
    IN [reset |-> IF k \in DOMAIN st THEN st[k].expiry ELSE t,
        remaining |-> Max(0, item.amount - StorageGet(st, k, t))]

(* The store drops the entries whose window has ended. *)
Expire(st, t) == [k \in {x \in DOMAIN st : st[x].expiry > t} |-> st[k]]

-----------------------------------------------------------------------------
(* request.state.view_rate_limit: unset, None, or (item, args). *)

NoItem == [amount |-> 0, window |-> 0, pass_always |-> FALSE]
ViewUnset == [state |-> "unset", item |-> NoItem, args |-> <<>>]
ViewNone == [state |-> "none", item |-> NoItem, args |-> <<>>]
ViewOf(item, args) == [state |-> "some", item |-> item, args |-> args]

(* One record of the history: what happened to one candidate limit. *)
HitRec(lim, args, cost, res, fb) ==
    [lim |-> lim, args |-> args, cost |-> cost, res |-> res, fb |-> fb]

(* Mutation of Cost: every request is charged 1. *)
UnitCost(lim, request) == 1

(* cost = lim.cost(request) if callable(lim.cost) else lim.cost; the       *)
(* callable costs of the tests read the request (its `foo` header).        *)
Cost(lim, request) == IF lim.cost_fn THEN request.foo ELSE lim.cost

(* Mutation of LimitForHeader: every limit seen replaces the one before. *)
LatestLimitForHeader(hdr, lim, args) == ViewOf(lim.limit, args)

(* limit_for_header before the hit: replaced when there is none yet or     *)
(* when lim.limit < limit_for_header[0].                                   *)
LimitForHeader(hdr, lim, args) ==
    IF hdr.state # "some" \/ ItemLess(lim.limit, hdr.item)
    THEN ViewOf(lim.limit, args) ELSE hdr

(* Mutation of FailedLimitForHeader: the tightest limit seen stays. *)
KeepLimitForHeader(hdr, lim, args) == hdr

(* limit_for_header after a failing hit: the failing limit and its args. *)
FailedLimitForHeader(hdr, lim, args) == ViewOf(lim.limit, args)

(* Mutation of LimitScope: the scope of a limit is always the endpoint. *)
EndpointScope(lim, endpoint) == endpoint

(* limit_scope = lim.scope or endpoint. *)
LimitScope(lim, endpoint) == IF lim.scope # "" THEN lim.scope ELSE endpoint

(* Mutation of AllArgs: a limit is evaluated whatever its key and scope. *)
AnyArgs(limit_key, limit_scope) == TRUE

(* all(args) for args = [limit_key, limit_scope]. *)
AllArgs(limit_key, limit_scope) == limit_key # "" /\ limit_scope # ""

(* Limiter.__evaluate_limits, one iteration of its loop over the limits.   *)
(* acc: st, fb (the two stores), hdr (limit_for_header), failed, exc (a   *)
(* backend call raised), hits (history).  use_fb: self.limiter is the      *)
(* fallback limiter.                                                       *)
EvaluateLimit(acc, lim, request, endpoint, use_fb) ==
    LET limit_scope == LimitScope(lim, endpoint)
        method_part == IF lim.per_method THEN request.method ELSE ""
        limit_key == KeyFunc(lim.key_func, request)
        bare == <<limit_key, limit_scope, method_part>>
        args == IF cfg.key_prefix # "" THEN <<cfg.key_prefix>> \o bare ELSE bare
        skip == [acc EXCEPT !.hits = Append(@, HitRec(lim, bare, 0, "skipped", use_fb))]
    IN IF is_exempt(lim).raised
       THEN [acc EXCEPT !.exc = TRUE,
                        !.hits = Append(@, HitRec(lim, bare, 0, "error", use_fb))]
       ELSE IF is_exempt(lim).v THEN skip
       ELSE IF lim.has_methods /\ request.method \notin lim.methods THEN skip
       ELSE IF ~AllArgs(limit_key, limit_scope) THEN skip
       ELSE
         LET hdr == LimitForHeader(acc.hdr, lim, args)
             cost == Cost(lim, request)
         IN IF ~use_fb /\ ~backend_up
            THEN [acc EXCEPT !.hdr = hdr, !.exc = TRUE,
                             !.hits = Append(@, HitRec(lim, args, cost, "error", use_fb))]
            ELSE LET r == Hit(IF use_fb THEN acc.fb ELSE acc.st, lim.limit, args, cost, now)
                     a1 == IF use_fb THEN [acc EXCEPT !.fb = r.st] ELSE [acc EXCEPT !.st = r.st]
                 IN IF r.ok
                    THEN [a1 EXCEPT !.hdr = hdr,
                                    !.hits = Append(@, HitRec(lim, args, cost, "ok", use_fb))]
                    ELSE [a1 EXCEPT !.hdr = FailedLimitForHeader(hdr, lim, args),
                                    !.failed = TRUE,
                                    !.hits = Append(@, HitRec(lim, args, cost, "exceeded", use_fb))]

(* Mutation of EvaluateLoop: a failing limit does not end the loop. *)
RECURSIVE EvaluateAll(_, _, _, _, _, _)
EvaluateAll(acc, limits, i, request, endpoint, use_fb) ==
    IF i > Len(limits) \/ acc.exc THEN acc
    ELSE CHOOSE out \in
             {EvaluateAll(a, limits, i + 1, request, endpoint, use_fb) :
                 a \in {EvaluateLimit(acc, limits[i], request, endpoint, use_fb)}} : TRUE

(* Mutation of EvaluateLoop: no limit is evaluated. *)
EvaluateNone(acc, limits, i, request, endpoint, use_fb) == acc

(* Mutation of EvaluateLoop: only the first limit is evaluated. *)
EvaluateFirst(acc, limits, i, request, endpoint, use_fb) ==
    IF limits = <<>> THEN acc
    ELSE EvaluateLimit(acc, limits[1], request, endpoint, use_fb)

(* The loop of __evaluate_limits: in order, stopping at the first failing  *)
(* limit (break) or at the first exception.  (The accumulator of each      *)
(* iteration is bound as the member of a one-element set, so that it is    *)
(* computed once.)                                                         *)
RECURSIVE EvaluateLoop(_, _, _, _, _, _)
EvaluateLoop(acc, limits, i, request, endpoint, use_fb) ==
    IF i > Len(limits) \/ acc.failed \/ acc.exc THEN acc
    ELSE CHOOSE out \in
             {EvaluateLoop(a, limits, i + 1, request, endpoint, use_fb) :
                 a \in {EvaluateLimit(acc, limits[i], request, endpoint, use_fb)}} : TRUE

EvaluateLimits(st, fb, limits, request, endpoint, use_fb) ==
    EvaluateLoop([st |-> st, fb |-> fb, hdr |-> ViewNone, failed |-> FALSE,
                  exc |-> FALSE, hits |-> <<>>, resolved |-> TRUE],
                 limits, 1, request, endpoint, use_fb)

(* The same record when listing the limits raised inside the try block:    *)
(* __evaluate_limits is not reached.                                       *)
NotResolved(st, fb) ==
    [st |-> st, fb |-> fb, hdr |-> ViewNone, failed |-> FALSE, exc |-> TRUE,
     hits |-> <<>>, resolved |-> FALSE]

-----------------------------------------------------------------------------
(* Mutation of ShouldCheckBackend: no backoff, every call is a probe. *)
CheckBackendAlways(count, last, t) ==
    [result |-> TRUE, count |-> count + 1, last |-> t, exponent |-> count]

(* Mutation of ShouldCheckBackend: the counter is never reset. *)
CheckBackendNoReset(count, last, t) ==
    IF t - last > Pow2(count)
    THEN [result |-> TRUE, count |-> count + 1, last |-> t, exponent |-> count]
    ELSE [result |-> FALSE, count |-> count, last |-> last, exponent |-> count]

(* Limiter.__should_check_backend: the exponential backoff of the probes.  *)
(* `exponent` is the second argument of pow in the comparison.             *)
ShouldCheckBackend(count, last, t) ==
    LET c == IF count > MAX_BACKEND_CHECKS THEN 0 ELSE count
    IN IF t - last > Pow2(c)
       THEN [result |-> TRUE, count |-> c + 1, last |-> t, exponent |-> c]
       ELSE [result |-> FALSE, count |-> c, last |-> last, exponent |-> c]

(* The limits _check_request_limit assembles when it does not take the     *)
(* fallback limits: application limits (middleware pass), the route's      *)
(* limits, and the default limits when the condition of lines 617-627      *)
(* holds.                                                                  *)
CombinedDefaults(route_limits) ==
    \A i \in 1..Len(route_limits) : ~route_limits[i].override_defaults

AppendDefaults(route_limits, in_middleware, marked) ==
    (route_limits = <<>> /\ ~(in_middleware /\ marked)) \/ CombinedDefaults(route_limits)

(* limits + dynamic_limits of lines 579-595: the route's static limits and *)
(* those of its providers, each given the request; a provider whose string *)
(* does not parse is logged and contributes nothing.                       *)
RouteLimits(request, in_middleware) ==
    LET name == request.route
        limits == IF ~in_middleware /\ name \in DOMAIN cfg.route_limits
                  THEN cfg.route_limits[name] ELSE <<>>
        dynamic_limits == IF ~in_middleware /\ name \in DOMAIN cfg.dynamic_route_limits
                          THEN Chain(cfg.dynamic_route_limits[name], request) ELSE <<>>
    IN limits \o dynamic_limits

(* The application, default and fallback groups are listed as they are:    *)
(* no request was given to them.                                           *)
AssembleLimits(request, in_middleware) ==
    LET route_limits == RouteLimits(request, in_middleware)
        marked == request.route \in DOMAIN cfg.marked_for_limiting
    IN (IF in_middleware THEN Chain(cfg.application_limits, NoRequest) ELSE <<>>)
       \o route_limits
       \o (IF AppendDefaults(route_limits, in_middleware, marked)
           THEN Chain(cfg.default_limits, NoRequest) ELSE <<>>)

AssembleRaises(request, in_middleware) ==
    LET route_limits == RouteLimits(request, in_middleware)
        marked == request.route \in DOMAIN cfg.marked_for_limiting
    IN \/ in_middleware /\ ChainRaises(cfg.application_limits, NoRequest)
       \/ /\ AppendDefaults(route_limits, in_middleware, marked)
          /\ ChainRaises(cfg.default_limits, NoRequest)

(* One record of the history: one call of __evaluate_limits. *)
EvalRec(in_middleware, p, use_fb, acc) ==
    [in_middleware |-> in_middleware, dead_before |-> p.dead_before,
     count_before |-> p.count_before, exponent |-> p.exponent, probe |-> p.probe,
     fb_limits |-> p.fb_limits, use_fb |-> use_fb, limits |-> p.all_limits,
     hits |-> acc.hits, resolved |-> acc.resolved,
     out |-> IF acc.exc THEN "error" ELSE IF acc.failed THEN "exceeded" ELSE "ok"]

(* Limiter._check_request_limit.  E is the state it reads and writes:      *)
(* storage, fb_storage, storage_dead, check_backend_count,                 *)
(* last_check_backend, view (request.state.view_rate_limit), evals         *)
(* (history) and out: "return" (nothing to check), "ok", "exceeded"        *)
(* (RateLimitExceeded raised), "error" (another exception raised) or      *)
(* "swallowed".                                                            *)
(*                                                                         *)
(* Probe is its first half: with the storage dead and a fallback limiter,  *)
(* unless this is the middleware pass of a marked route, the backend is    *)
(* probed if the backoff allows, and the fallback limits are taken when    *)
(* the storage stays dead.                                                 *)
(* Mutation of StorageRecovered: the flag is left as it is. *)
StorageStaysDead(E) == E

(* The probe found the storage alive (lines 604-606). *)
StorageRecovered(E) ==
    [E EXCEPT !.storage_dead = FALSE, !.check_backend_count = 0]

Probe(E, request, in_middleware) ==
    LET marked == request.route \in DOMAIN cfg.marked_for_limiting
        may_probe == E.storage_dead /\ cfg.in_memory_fallback_enabled
                     /\ ~(in_middleware /\ marked)
        sc == IF may_probe
              THEN ShouldCheckBackend(E.check_backend_count, E.last_check_backend, now)
              ELSE [result |-> FALSE, count |-> E.check_backend_count,
                    last |-> E.last_check_backend, exponent |-> -1]
        recovered == sc.result /\ backend_up
        fb_limits == IF may_probe /\ ~recovered
                     THEN Chain(cfg.in_memory_fallback, NoRequest) ELSE <<>>
        fb_raised == may_probe /\ ~recovered
                     /\ ChainRaises(cfg.in_memory_fallback, NoRequest)
        probed == [E EXCEPT !.check_backend_count = sc.count,
                            !.last_check_backend = sc.last]
    IN [E |-> IF recovered THEN StorageRecovered(probed) ELSE probed,
        dead_before |-> E.storage_dead,
        count_before |-> E.check_backend_count,
        exponent |-> sc.exponent,
        probe |-> IF ~sc.result THEN "none" ELSE IF recovered THEN "ok" ELSE "failed",
        fb_limits |-> fb_limits # <<>>,
        raised |-> fb_raised \/ (fb_limits = <<>> /\ AssembleRaises(request, in_middleware)),
        all_limits |-> IF fb_raised THEN <<>>
                       ELSE IF fb_limits # <<>> THEN fb_limits
                       ELSE AssembleLimits(request, in_middleware)]

(* Its second half: the limits are evaluated; RateLimitExceeded is raised  *)
(* again, another exception starts the failover (once, while the storage   *)
(* is not yet dead) or is swallowed or raised.  (p, the probe's result,    *)
(* and acc, the evaluation's, are bound as members of one-element sets.)   *)
RECURSIVE CheckRequestLimit(_, _, _)

(* Mutation of enabled: the limiter is on whatever its configuration. *)
AlwaysEnabled == TRUE

(* self.enabled (limiter.enabled in the middleware). *)
enabled == cfg.enabled

(* Mutation of EndpointKey: the key is the path whatever the key style. *)
UrlKey(request) == request.path

(* _endpoint_key: the request's path with the key style "url", the         *)
(* handler's qualified name with "endpoint".                               *)
EndpointKey(request) == IF cfg.key_style = "url" THEN request.path ELSE request.route

(* Mutation of IsExemptRoute: no route is exempt. *)
NeverExemptRoute(name) == FALSE

(* name in self._exempt_routes, the test of _check_request_limit and of    *)
(* the middleware's _should_exempt.                                        *)
IsExemptRoute(name) == name \in cfg.exempt_routes

(* Mutation of MayFailOver: the failover needs no fallback. *)
FailOverAlways(E) == ~E.storage_dead

(* The test of the exception handler of _check_request_limit (line 634):   *)
(* the failover is open when the fallback is enabled and the storage is    *)
(* not yet marked dead.                                                    *)
MayFailOver(E) == cfg.in_memory_fallback_enabled /\ ~E.storage_dead

(* self._fallback_limiter: made by __init__ when the fallback is enabled.  *)
HasFallbackLimiter == cfg.in_memory_fallback_enabled

(* Mutation of Evaluated: RateLimitExceeded is handled like any other      *)
(* exception (failover, swallow_errors).                                   *)
EvaluatedCatchingAll(p, acc, request, in_middleware) ==
    LET use_fb == p.E.storage_dead /\ cfg.in_memory_fallback_enabled
        E2 == [p.E EXCEPT !.storage = acc.st, !.fb_storage = acc.fb,
                          !.view = IF acc.exc THEN @ ELSE acc.hdr,
                          !.evals = Append(@, EvalRec(in_middleware, p, use_fb, acc))]
    IN IF ~acc.exc /\ ~acc.failed
       THEN [E2 EXCEPT !.out = "ok"]
       ELSE IF cfg.in_memory_fallback_enabled /\ ~E2.storage_dead
       THEN CheckRequestLimit([E2 EXCEPT !.storage_dead = TRUE], request, in_middleware)
       ELSE [E2 EXCEPT !.out = IF cfg.swallow_errors THEN "swallowed"
                               ELSE IF acc.failed THEN "exceeded" ELSE "error"]

Evaluated(p, acc, request, in_middleware) ==
    LET use_fb == p.E.storage_dead /\ cfg.in_memory_fallback_enabled
        E2 == [p.E EXCEPT !.storage = acc.st, !.fb_storage = acc.fb,
                          !.evals = Append(@, EvalRec(in_middleware, p, use_fb, acc))]
    IN IF ~acc.exc
       THEN [E2 EXCEPT !.view = acc.hdr,
                       !.out = IF acc.failed THEN "exceeded" ELSE "ok"]
       ELSE IF MayFailOver(E2)
       THEN CHOOSE out \in
                {CheckRequestLimit(E3, request, in_middleware) :
                    E3 \in {[E2 EXCEPT !.storage_dead = TRUE]}} : TRUE
       ELSE [E2 EXCEPT !.out = IF cfg.swallow_errors THEN "swallowed" ELSE "error"]

CheckRequestLimit(E, request, in_middleware) ==
    LET name == request.route
        endpoint_key == EndpointKey(request)
    IN IF endpoint_key = "" \/ ~enabled \/ IsExemptRoute(name)
       THEN [E EXCEPT !.out = "return"]
       ELSE CHOOSE out \in UNION
                {{Evaluated(p, acc, request, in_middleware) :
                     acc \in {IF p.raised THEN NotResolved(p.E.storage, p.E.fb_storage)
                              ELSE EvaluateLimits(p.E.storage, p.E.fb_storage, p.all_limits,
                                                  request, endpoint_key,
                                                  p.E.storage_dead
                                                  /\ cfg.in_memory_fallback_enabled)}} :
                 p \in {Probe(E, request, in_middleware)}} : TRUE

-----------------------------------------------------------------------------
(* Responses.  The three X-RateLimit headers are appended (a list each);   *)
(* Retry-After is set: none, integer seconds, or an HTTP-date (its epoch). *)

NoRetryAfter == [kind |-> "none", v |-> 0]
Response(status, retry_after) ==
    [status |-> status, limit |-> <<>>, remaining |-> <<>>, reset |-> <<>>,
     retry_after |-> retry_after]
NoResponse == Response(0, NoRetryAfter)

(* Limiter._determine_retry_time: an HTTP-date is parsed to a datetime and *)
(* its fields are handed to time.mktime, which reads them as local time;   *)
(* integer seconds are counted from now.                                   *)
DetermineRetryTime(header) ==
    IF header.kind = "date" THEN header.v - tz ELSE now + header.v

(* Limiter._inject_headers, with current_limit not unset, in the limiter   *)
(* state E.  Returns the response, storage_dead and whether an exception   *)
(* leaves the call.                                                        *)
RECURSIVE InjectHeaders(_, _, _)
InjectHeaders(response, current_limit, E) ==
    IF ~(enabled /\ cfg.headers_enabled /\ current_limit.state = "some")
    THEN [resp |-> response, dead |-> E.storage_dead, raised |-> FALSE]
    ELSE
      LET use_fb == E.storage_dead /\ cfg.in_memory_fallback_enabled
      IN IF ~use_fb /\ ~backend_up
         THEN IF cfg.in_memory_fallback # <<>> /\ ~E.storage_dead
              THEN LET r == InjectHeaders(response, current_limit,
                                          [E EXCEPT !.storage_dead = TRUE])
                   IN [r EXCEPT !.raised = @ \/ ~cfg.swallow_errors]
              ELSE [resp |-> response, dead |-> E.storage_dead,
                    raised |-> ~cfg.swallow_errors]
         ELSE
           LET ws == GetWindowStats(IF use_fb THEN E.fb_storage ELSE E.storage,
                                    current_limit.item, current_limit.args, now)
               reset_in == 1 + ws.reset
               existing == response.retry_after
               retry == IF existing.kind # "none"
                        THEN Max(DetermineRetryTime(existing), reset_in)
                        ELSE reset_in
           IN [resp |-> [response EXCEPT
                           !.limit = Append(@, current_limit.item.amount),
                           !.remaining = Append(@, ws.remaining),
                           !.reset = Append(@, reset_in),
                           !.retry_after = IF cfg.retry_after = "http-date"
                                           THEN [kind |-> "date", v |-> retry]
                                           ELSE [kind |-> "secs", v |-> retry - now]],
               dead |-> E.storage_dead, raised |-> FALSE]

(* Reading request.state.view_rate_limit and calling _inject_headers: an   *)
(* unset attribute raises before the call.                                 *)
InjectFromState(response, view, E) ==
    IF view.state = "unset"
    THEN [resp |-> response, dead |-> E.storage_dead, raised |-> TRUE]
    ELSE InjectHeaders(response, view, E)

(* _rate_limit_exceeded_handler: a 429 response with the headers of the    *)
(* binding; an exception out of it is a 500.                               *)
RateLimitExceededHandler(E) ==
    LET r == InjectFromState(Response(429, NoRetryAfter), E.view, E)
    IN IF r.raised THEN [r EXCEPT !.resp = Response(500, NoRetryAfter)] ELSE r

-----------------------------------------------------------------------------
(* Construction.  Limiter.__init__ wraps each default, application and     *)
(* fallback limit string in a LimitGroup with the limiter's key function,  *)
(* cost 1 and override_defaults False; application limits get the scope    *)
(* "global".                                                               *)

DefaultGroup(item, key_func) ==
    LimitGroup(FALSE, <<Limit(item, key_func, "", 1, FALSE)>>)

ApplicationGroup(item, key_func) ==
    LimitGroup(FALSE, <<Limit(item, key_func, "global", 1, FALSE)>>)

Limiter(name, key_func, default_items, application_items, fallback_items) ==
    [name |-> name,
     enabled |-> TRUE, headers_enabled |-> TRUE, auto_check |-> TRUE,
     swallow_errors |-> FALSE, retry_after |-> "seconds",
     key_prefix |-> "", key_style |-> "url", key_func |-> key_func,
     default_limits |-> [i \in 1..Len(default_items) |->
                            DefaultGroup(default_items[i], key_func)],
     application_limits |-> [i \in 1..Len(application_items) |->
                                ApplicationGroup(application_items[i], key_func)],
     in_memory_fallback |-> [i \in 1..Len(fallback_items) |->
                                DefaultGroup(fallback_items[i], key_func)],
     in_memory_fallback_enabled |-> Len(fallback_items) > 0,
     route_limits |-> <<>>, dynamic_route_limits |-> <<>>,
     marked_for_limiting |-> <<>>, exempt_routes |-> {},
     \* the application around the limiter
     middleware |-> TRUE, storage_uri |-> "memory://",
     routes |-> {"t1"}, paths |-> <<>>, clients |-> {"a"}, foos |-> {1},
     agents |-> {""},
     \* history: the decorations made, with their outcome
     decorations |-> <<>>]

Lookup(f, name, default) == IF name \in DOMAIN f THEN f[name] ELSE default

(* The decorator of __limit_decorator with a limit string: the route is    *)
(* marked and the parsed limits extend _route_limits[name] (nothing, when  *)
(* the string does not parse: the ValueError is logged).                   *)
StaticDecorator(c, name, static_limits) ==
    [c EXCEPT !.marked_for_limiting = (name :> (Lookup(@, name, 0) + 1)) @@ @,
              !.route_limits = (name :> (Lookup(@, name, <<>>) \o static_limits)) @@ @]

(* The decorator with a callable: the LimitGroup joins                     *)
(* _dynamic_route_limits[name].                                            *)
DynamicDecorator(c, name, dynamic_limit) ==
    [c EXCEPT !.marked_for_limiting = (name :> (Lookup(@, name, 0) + 1)) @@ @,
              !.dynamic_route_limits = (name :> Append(Lookup(@, name, <<>>), dynamic_limit)) @@ @]

(* Mutation of HasConnection: any signature will do. *)
AnySignature(signature) == TRUE

(* The search of the handler's parameters for one named "request" or       *)
(* "websocket" (the for/else of the decorator).  A signature is abstracted *)
(* to the connection parameter it has: "request", "websocket" or "none".   *)
HasConnection(signature) == signature \in {"request", "websocket"}

(* The decorator of __limit_decorator applied to a handler d.name with the *)
(* signature d.signature, sync or async: the registration, then the check  *)
(* of the signature, which raises, or the choice of the wrapper, which the *)
(* application mounts as a route.  d.limit_value is "static" (a string     *)
(* that parses to d.limits), "invalid" (a string that does not parse) or   *)
(* "dynamic" (a callable, the group d.group).                              *)
LimitDecorator(c, d) ==
    LET registered == IF d.limit_value = "dynamic"
                      THEN DynamicDecorator(c, d.name, d.group)
                      ELSE StaticDecorator(c, d.name,
                                           IF d.limit_value = "static" THEN d.limits
                                           ELSE <<>>)
        outcome(raised, wrapper) ==
            [name |-> d.name, signature |-> d.signature, is_async |-> d.is_async,
             limit_value |-> d.limit_value, raised |-> raised, wrapper |-> wrapper]
    IN IF HasConnection(d.signature)
       THEN [registered EXCEPT
               !.routes = @ \cup {d.name},
               !.decorations = Append(@, outcome(FALSE, IF d.is_async THEN "async_wrapper"
                                                        ELSE "sync_wrapper"))]
       ELSE [registered EXCEPT !.decorations = Append(@, outcome(TRUE, "none"))]

(* Limiter.exempt: the handler's name joins _exempt_routes; its wrapper    *)
(* only calls the handler.                                                 *)
ExemptDecorator(c, name) == [c EXCEPT !.exempt_routes = @ \cup {name}]

PerIp(amount, window, override_defaults) ==
    Limit(Item(amount, window), "get_ipaddr", "", 1, override_defaults)

(* What shared_limit(limit_value, scope) registers: a limit of that scope. *)
SharedLimit(amount, window, scope) ==
    Limit(Item(amount, window), "get_ipaddr", scope, 1, TRUE)

(* The applications of the model: those of the tests, with small amounts.  *)
SingleApp ==
    [StaticDecorator(Limiter("single", "get_ipaddr", <<>>, <<>>, <<>>), "t1",
                     <<PerIp(2, 2 * SECOND, TRUE)>>)
     EXCEPT !.clients = {"a", "b"}]

StackedApp ==
    [StaticDecorator(
        StaticDecorator(Limiter("stacked", "get_ipaddr", <<>>, <<>>, <<>>), "t1",
                        <<PerIp(1, MINUTE, TRUE)>>),
        "t1", <<Limit(Item(2, MINUTE), "const_test", "", 1, TRUE)>>)
     EXCEPT !.clients = {"a", "b", "c"}]

ClausesApp ==
    StaticDecorator(Limiter("clauses", "get_ipaddr", <<>>, <<>>, <<>>), "t1",
                    <<PerIp(1, SECOND, TRUE), PerIp(2, 3 * SECOND, TRUE)>>)

CostApp ==
    [StaticDecorator(
        StaticDecorator(Limiter("cost", "get_ipaddr", <<>>, <<>>, <<>>), "t1",
                        <<Limit(Item(50, MINUTE), "get_ipaddr", "", 10, TRUE)>>),
        "t2", <<Limit(Item(50, MINUTE), "get_ipaddr", "", 15, TRUE)>>)
     EXCEPT !.routes = {"t1", "t2"}]

CallableCostApp ==
    [StaticDecorator(Limiter("callable_cost", "get_ipaddr", <<>>, <<>>, <<>>), "t1",
                     <<[Limit(Item(3, MINUTE), "get_ipaddr", "", 1, TRUE)
                        EXCEPT !.cost_fn = TRUE]>>)
     EXCEPT !.foos = {1, 2}]

MergeApp(override_defaults) ==
    [StaticDecorator(Limiter(IF override_defaults THEN "override" ELSE "merge",
                             "const_test", <<Item(2, MINUTE)>>, <<>>, <<>>),
                     "t1", <<PerIp(1, MINUTE, override_defaults)>>)
     EXCEPT !.clients = {"a", "b", "c"}]

UndecoratedApp ==
    [Limiter("undecorated", "get_ipaddr", <<Item(1, MINUTE)>>, <<Item(2, MINUTE)>>, <<>>)
     EXCEPT !.routes = {"t0"}, !.clients = {"a", "b"}]

(* limit("exempt"): what the decorator registers when the parser rejects   *)
(* the token (parsed = FALSE) and when it yields the always-passing item.  *)
ExemptLiteralApp(parsed, override_defaults) ==
    StaticDecorator(Limiter("exempt_literal", "get_ipaddr", <<Item(1, MINUTE)>>,
                            <<Item(1, MINUTE)>>, <<>>),
                    "t1",
                    IF parsed
                    THEN <<Limit(ExemptItem, "get_ipaddr", "", 1, override_defaults)>>
                    ELSE <<>>)

DynamicApp(override_defaults, fallback_items) ==
    [DynamicDecorator(Limiter("dynamic", "get_ipaddr", <<Item(1, MINUTE)>>, <<>>,
                              fallback_items),
                      "t1", LimitGroup(TRUE, <<PerIp(3, MINUTE, override_defaults)>>))
     EXCEPT !.storage_uri = IF fallback_items = <<>> THEN "memory://" ELSE "redis://"]

(* A route whose provider returns a string that does not parse, with no    *)
(* other limit anywhere.                                                   *)
MalformedDynamicApp ==
    DynamicDecorator(Limiter("malformed", "get_ipaddr", <<>>, <<>>, <<>>),
                     "t1", MalformedLimitGroup(TRUE))

(* Limiter(default_limits=[provider]) with a provider that takes the key:  *)
(* the default group is never given a request.  The storage is in memory.  *)
KeyedDefaultApp(fallback_items, swallow_errors) ==
    [Limiter("keyed_default", "get_ipaddr", <<>>, <<>>, fallback_items)
     EXCEPT !.default_limits =
                <<KeyedLimitGroup("get_ipaddr", "a" :> <<PerIp(1, MINUTE, FALSE)>>)>>,
            !.swallow_errors = swallow_errors]

(* Limits whose key function returns the empty string: alone on t1, and   *)
(* on t2 before a limit per client.                                        *)
EmptyKeyApp ==
    [StaticDecorator(
        StaticDecorator(Limiter("empty_key", "get_ipaddr", <<>>, <<>>, <<>>), "t1",
                        <<Limit(Item(1, MINUTE), "empty", "", 1, TRUE)>>),
        "t2", <<Limit(Item(1, MINUTE), "empty", "", 1, TRUE), PerIp(2, MINUTE, TRUE)>>)
     EXCEPT !.routes = {"t1", "t2"}]

(* test_exempt_decorator: an undecorated route (t0), an exempt handler     *)
(* (t1) and a handler that is exempt and carries a limit decorator (t2),   *)
(* under a default and an application limit.                               *)
ExemptApp ==
    [ExemptDecorator(
        ExemptDecorator(
            StaticDecorator(Limiter("exempt", "get_ipaddr", <<Item(1, MINUTE)>>,
                                    <<Item(2, MINUTE)>>, <<>>),
                            "t2", <<PerIp(1, MINUTE, TRUE)>>),
            "t2"),
        "t1")
     EXCEPT !.routes = {"t0", "t1", "t2"}]

(* test_disabled_limiter: enabled=False, with a decorated route (t1), an   *)
(* undecorated one (t0) and a default limit.                               *)
DisabledApp ==
    [StaticDecorator(Limiter("disabled", "get_ipaddr", <<Item(1, MINUTE)>>, <<>>, <<>>),
                     "t1", <<PerIp(1, MINUTE, TRUE)>>)
     EXCEPT !.enabled = FALSE, !.routes = {"t0", "t1"}]

(* test_shared_decorator: two routes under one shared limit. *)
SharedApp ==
    [StaticDecorator(
        StaticDecorator(Limiter("shared", "get_ipaddr", <<>>, <<>>, <<>>), "t1",
                        <<SharedLimit(2, MINUTE, "somescope")>>),
        "t2", <<SharedLimit(2, MINUTE, "somescope")>>)
     EXCEPT !.routes = {"t1", "t2"}]

(* test_key_style: one handler mounted at "/t1/{my_param}", reached by two *)
(* paths, under one limit and a constant key.                              *)
KeyStyleApp(key_style) ==
    [StaticDecorator(Limiter("key_style", "const_test", <<>>, <<>>, <<>>), "t1",
                     <<Limit(Item(1, MINUTE), "const_test", "", 1, TRUE)>>)
     EXCEPT !.key_style = key_style,
            !.paths = "t1" :> {"/t1/param_one", "/t1/param_two"}]

(* test_dynamic_limit_provider_depending_on_key: the provider returns one  *)
(* limit for the key "admin" and a smaller one for any other key.          *)
DynamicKeyApp ==
    [DynamicDecorator(Limiter("dynamic_key", "get_ipaddr", <<>>, <<>>, <<>>), "t1",
                      KeyedLimitGroup("get_ipaddr",
                                      [k \in {"user", "admin"} |->
                                          <<PerIp(IF k = "admin" THEN 2 ELSE 1,
                                                  MINUTE, TRUE)>>]))
     EXCEPT !.clients = {"user", "admin"}]

(* test_exempt_when_argument: three routes limited to one per minute with  *)
(* exempt_when=return_true (t1), return_false (t2) and dynamic (t3), which *)
(* reads the request's User-Agent.                                         *)
ExemptWhen(amount, window, exempt_when) ==
    [PerIp(amount, window, TRUE) EXCEPT !.exempt_when = exempt_when]

ExemptWhenApp ==
    [StaticDecorator(
        StaticDecorator(
            StaticDecorator(Limiter("exempt_when", "get_ipaddr", <<>>, <<>>, <<>>),
                            "t1", <<ExemptWhen(1, MINUTE, "return_true")>>),
            "t2", <<ExemptWhen(1, MINUTE, "return_false")>>),
        "t3", <<ExemptWhen(1, MINUTE, "dynamic")>>)
     EXCEPT !.routes = {"t1", "t2", "t3"}, !.agents = {"", "exempt"}]

(* test_headers_no_breach: limits of several clauses, of different         *)
(* granularities, in the two orders ("3/second; 2/minute" on t1,           *)
(* "2/minute; 3/second" on t2).                                            *)
HeadersApp ==
    [StaticDecorator(
        StaticDecorator(Limiter("headers", "get_ipaddr", <<>>, <<>>, <<>>), "t1",
                        <<PerIp(3, SECOND, TRUE), PerIp(2, MINUTE, TRUE)>>),
        "t2", <<PerIp(2, MINUTE, TRUE), PerIp(3, SECOND, TRUE)>>)
     EXCEPT !.routes = {"t1", "t2"}]

(* An application limit over an undecorated route (t0) and a decorated one *)
(* (t1).                                                                   *)
ApplicationLimitApp ==
    [StaticDecorator(Limiter("application", "get_ipaddr", <<>>, <<Item(2, MINUTE)>>, <<>>),
                     "t1", <<PerIp(3, MINUTE, TRUE)>>)
     EXCEPT !.routes = {"t0", "t1"}]

RemoteApp(fallback_items, fallback_enabled, swallow_errors) ==
    [StaticDecorator(Limiter("remote", "get_ipaddr", <<>>, <<>>, fallback_items),
                     "t1", <<PerIp(2, MINUTE, TRUE)>>)
     EXCEPT !.storage_uri = "redis://", !.swallow_errors = swallow_errors,
            !.in_memory_fallback_enabled = @ \/ fallback_enabled]

Apps ==
    {SingleApp, StackedApp, ClausesApp, CostApp, CallableCostApp,
     MergeApp(FALSE), MergeApp(TRUE), UndecoratedApp, ExemptApp,
     DisabledApp, SharedApp, DynamicKeyApp, ExemptWhenApp, HeadersApp,
     ApplicationLimitApp, MalformedDynamicApp, EmptyKeyApp}
    \cup {KeyStyleApp(k) : k \in {"url", "endpoint"}}
    \cup {ExemptLiteralApp(p, o) : p \in BOOLEAN, o \in BOOLEAN}
    \cup {DynamicApp(o, <<>>) : o \in BOOLEAN}
    \cup {DynamicApp(TRUE, <<Item(2, MINUTE)>>)}
    \cup {RemoteApp(<<Item(1, MINUTE)>>, FALSE, s) : s \in BOOLEAN}
    \cup {RemoteApp(<<>>, e, s) : e \in BOOLEAN, s \in BOOLEAN}
    \cup {KeyedDefaultApp(f, s) : f \in {<<>>, <<Item(1, MINUTE)>>}, s \in BOOLEAN}

Requests ==
    [route : cfg.routes, path : {"/"}, method : {"GET"}, client : cfg.clients,
     foo : cfg.foos, agent : cfg.agents]

(* A request to route r has r's path, or one of its paths when the route   *)
(* has a path parameter.                                                   *)
PathOf(route) ==
    CASE route = "t0" -> "/t0" [] route = "t1" -> "/t1" [] route = "t3" -> "/t3"
      [] OTHER -> "/t2"

PathsOf(route) == Lookup(cfg.paths, route, {PathOf(route)})

FreshState == [complete |-> FALSE, view |-> ViewUnset]

(* No responder has been created, and no worker thread is at work. *)
NoResponder == [phase |-> "none"]
NoThreads == [request |-> NoRequest, threads |-> <<>>]

-----------------------------------------------------------------------------
Init ==
    /\ cfg \in Apps
    /\ storage = <<>> /\ fb_storage = <<>>
    /\ storage_dead = FALSE
    /\ check_backend_count = 0
    /\ last_check_backend = 0
    /\ now = 0
    /\ backend_up = TRUE
    /\ tz = 0
    /\ outages = 0
    /\ nreq = 0
    /\ pc = "idle"
    /\ req = NoRequest
    /\ rstate = FreshState
    /\ resp = NoResponse
    /\ depth = 0
    /\ mw_inject = FALSE
    /\ evals = <<>>
    /\ tally = <<>>
    /\ asgi = NoResponder
    /\ conc = NoThreads

(* The limiter's side of the state, as _check_request_limit sees it. *)
Engine ==
    [storage |-> storage, fb_storage |-> fb_storage, storage_dead |-> storage_dead,
     check_backend_count |-> check_backend_count,
     last_check_backend |-> last_check_backend,
     view |-> rstate.view, evals |-> evals, out |-> ""]

(* History: per route and client, the evaluations that ran in the current  *)
(* window of their first limit, how many of them passed, and whether an    *)
(* earlier window saw a rejection.                                         *)
Tally(tl, request, E) ==
    LET ev == E.evals[Len(E.evals)]
        k == <<request.route, request.client>>
        w == ev.limits[1].limit.window
        fresh == k \notin DOMAIN tl \/ now >= tl[k].start + w
        old == IF fresh
               THEN [start |-> now, total |-> 0, allowed |-> 0,
                     rolled |-> k \in DOMAIN tl /\ (tl[k].rolled \/ tl[k].allowed < tl[k].total)]
               ELSE tl[k]
    IN IF E.out \notin {"ok", "exceeded"} \/ ev.limits = <<>> THEN tl
       ELSE (k :> [old EXCEPT !.total = @ + 1,
                              !.allowed = @ + IF E.out = "ok" THEN 1 ELSE 0]) @@ tl

Wrappers(route) == Lookup(cfg.marked_for_limiting, route, 0)

Arrive ==
    /\ pc = "idle"
    /\ nreq < MaxRequests
    /\ \E r \in Requests : \E path \in PathsOf(r.route) :
         req' = [r EXCEPT !.path = path]
    /\ nreq' = nreq + 1
    /\ pc' = IF cfg.middleware THEN "middleware" ELSE "route"
    /\ UNCHANGED <<asgi, conc, cfg, storage, fb_storage, storage_dead, check_backend_count,
                   last_check_backend, now, backend_up, tz, outages, rstate, resp,
                   depth, mw_inject, evals, tally>>

(* Mutation of Raised: RateLimitExceeded does not leave the check. *)
RaisedError(out) == out = "error"

(* Whether _check_request_limit ended by raising: RateLimitExceeded or     *)
(* another exception leaves it, and with it the wrapper (no handler is     *)
(* called) or _check_limits (the exception handler's response is           *)
(* returned).                                                              *)
Raised(out) == out \in {"exceeded", "error"}

(* SlowAPIMiddleware.dispatch up to call_next: _should_exempt, then        *)
(* _check_limits with the exception handler run on an exception.           *)
MiddlewareDispatch ==
    /\ pc = "middleware"
    /\ LET name == req.route
           should_exempt == IsExemptRoute(name) \/ name \in DOMAIN cfg.route_limits
       IN IF ~enabled \/ should_exempt \/ ~(cfg.auto_check /\ ~rstate.complete)
          THEN /\ pc' = "route"
               /\ UNCHANGED <<storage, fb_storage, storage_dead, check_backend_count,
                              last_check_backend, rstate, resp, mw_inject, evals, tally>>
          ELSE \E E \in {CheckRequestLimit(Engine, req, TRUE)} :
               \E h \in {RateLimitExceededHandler(E)} :
                  /\ storage' = E.storage
                  /\ fb_storage' = E.fb_storage
                  /\ check_backend_count' = E.check_backend_count
                  /\ last_check_backend' = E.last_check_backend
                  /\ evals' = E.evals
                  /\ tally' = IF E.out = "return" THEN tally ELSE Tally(tally, req, E)
                  /\ rstate' = [rstate EXCEPT !.view = E.view]
                  /\ storage_dead' = IF E.out = "exceeded" THEN h.dead ELSE E.storage_dead
                  /\ resp' = IF ~Raised(E.out) THEN resp
                             ELSE IF E.out = "exceeded" THEN h.resp
                             ELSE Response(500, NoRetryAfter)
                  /\ pc' = IF Raised(E.out) THEN "done" ELSE "route"
                  /\ mw_inject' = ~Raised(E.out)
    /\ UNCHANGED <<asgi, conc, cfg, now, backend_up, tz, outages, nreq, req, depth>>

(* A decorator wrapper up to the call of the function it wraps. *)
WrapperEnter ==
    /\ pc = "route"
    /\ depth < Wrappers(req.route)
    /\ IF enabled /\ cfg.auto_check /\ ~rstate.complete
       THEN \E E \in {CheckRequestLimit(Engine, req, FALSE)} :
            \E h \in {RateLimitExceededHandler(E)} :
               /\ storage' = E.storage
               /\ fb_storage' = E.fb_storage
               /\ check_backend_count' = E.check_backend_count
               /\ last_check_backend' = E.last_check_backend
               /\ evals' = E.evals
               /\ tally' = IF E.out = "return" THEN tally ELSE Tally(tally, req, E)
               /\ rstate' = [complete |-> ~Raised(E.out), view |-> E.view]
               /\ storage_dead' = IF E.out = "exceeded" THEN h.dead ELSE E.storage_dead
               /\ resp' = IF ~Raised(E.out) THEN resp
                          ELSE IF E.out = "exceeded" THEN h.resp
                          ELSE Response(500, NoRetryAfter)
               /\ pc' = IF ~Raised(E.out) THEN "route"
                        ELSE IF E.out = "exceeded" THEN "mw_post" ELSE "done"
               /\ depth' = IF Raised(E.out) THEN depth ELSE depth + 1
       ELSE /\ depth' = depth + 1
            /\ UNCHANGED <<storage, fb_storage, storage_dead, check_backend_count,
                           last_check_backend, rstate, resp, pc, evals, tally>>
    /\ UNCHANGED <<asgi, conc, cfg, now, backend_up, tz, outages, nreq, req, mw_inject>>

(* The endpoint function: a plain 200 response. *)
Endpoint ==
    /\ pc = "route"
    /\ depth = Wrappers(req.route)
    /\ resp' = Response(200, NoRetryAfter)
    /\ pc' = IF depth > 0 THEN "unwind" ELSE "mw_post"
    /\ UNCHANGED <<asgi, conc, cfg, storage, fb_storage, storage_dead, check_backend_count,
                   last_check_backend, now, backend_up, tz, outages, nreq, req,
                   rstate, depth, mw_inject, evals, tally>>

(* A decorator wrapper after the call: _inject_headers on the response. *)
WrapperExit ==
    /\ pc = "unwind"
    /\ depth > 0
    /\ \E r \in {IF enabled
                THEN InjectFromState(resp, rstate.view, Engine)
                ELSE [resp |-> resp, dead |-> storage_dead, raised |-> FALSE]} :
          /\ resp' = IF r.raised THEN Response(500, NoRetryAfter) ELSE r.resp
          /\ storage_dead' = r.dead
          /\ pc' = IF r.raised THEN "done"
                   ELSE IF depth = 1 THEN "mw_post" ELSE "unwind"
    /\ depth' = depth - 1
    /\ UNCHANGED <<asgi, conc, cfg, storage, fb_storage, check_backend_count, last_check_backend,
                   now, backend_up, tz, outages, nreq, req, rstate, mw_inject, evals,
                   tally>>

(* SlowAPIMiddleware.dispatch after call_next. *)
MiddlewareExit ==
    /\ pc = "mw_post"
    /\ \E r \in {IF mw_inject
                THEN InjectFromState(resp, rstate.view, Engine)
                ELSE [resp |-> resp, dead |-> storage_dead, raised |-> FALSE]} :
          /\ resp' = IF r.raised THEN Response(500, NoRetryAfter) ELSE r.resp
          /\ storage_dead' = r.dead
    /\ pc' = "done"
    /\ UNCHANGED <<asgi, conc, cfg, storage, fb_storage, check_backend_count, last_check_backend,
                   now, backend_up, tz, outages, nreq, req, rstate, depth, mw_inject,
                   evals, tally>>

(* The response has been sent; the request and its state are gone. *)
Complete ==
    /\ pc = "done"
    /\ pc' = "idle"
    /\ req' = NoRequest
    /\ rstate' = FreshState
    /\ resp' = NoResponse
    /\ depth' = 0
    /\ mw_inject' = FALSE
    /\ evals' = <<>>
    /\ UNCHANGED <<asgi, conc, cfg, storage, fb_storage, storage_dead, check_backend_count,
                   last_check_backend, now, backend_up, tz, outages, nreq, tally>>

(* A second passes; the stores drop what has expired. *)
Tick ==
    /\ now < MaxTime
    /\ now' = now + 1
    /\ storage' = Expire(storage, now + 1)
    /\ fb_storage' = Expire(fb_storage, now + 1)
    /\ UNCHANGED <<asgi, conc, cfg, storage_dead, check_backend_count, last_check_backend,
                   backend_up, tz, outages, nreq, pc, req, rstate, resp, depth,
                   mw_inject, evals, tally>>

(* A remote primary storage stops answering, and answers again. *)
BackendFails ==
    /\ cfg.storage_uri # "memory://"
    /\ backend_up
    /\ outages < MaxOutages
    /\ backend_up' = FALSE
    /\ outages' = outages + 1
    /\ UNCHANGED <<asgi, conc, cfg, storage, fb_storage, storage_dead, check_backend_count,
                   last_check_backend, now, tz, nreq, pc, req, rstate, resp, depth,
                   mw_inject, evals, tally>>

BackendRecovers ==
    /\ ~backend_up
    /\ backend_up' = TRUE
    /\ UNCHANGED <<asgi, conc, cfg, storage, fb_storage, storage_dead, check_backend_count,
                   last_check_backend, now, tz, outages, nreq, pc, req, rstate, resp,
                   depth, mw_inject, evals, tally>>

Next ==
    \/ Arrive
    \/ MiddlewareDispatch
    \/ WrapperEnter
    \/ Endpoint
    \/ WrapperExit
    \/ MiddlewareExit
    \/ Complete
    \/ Tick
    \/ BackendFails
    \/ BackendRecovers

Spec == Init /\ [][Next]_vars

-----------------------------------------------------------------------------
(* Header injection on a response that already carries Retry-After: the    *)
(* handler of a decorated route has returned, for a request that was       *)
(* evaluated against the route's limit, a response whose Retry-After is    *)
(* absent, integer seconds or an HTTP-date; the server's local time is     *)
(* some offset from UTC.                                                   *)

InjectApps == {[SingleApp EXCEPT !.retry_after = r] : r \in {"seconds", "http-date"}}

RetryAfterValues ==
    {NoRetryAfter} \cup [kind : {"secs", "date"}, v : 0..MaxRetryAfter]

InjectInit ==
    /\ cfg \in InjectApps
    /\ now \in {0, 1}
    /\ tz \in (-MaxOffset)..MaxOffset
    /\ backend_up = TRUE
    /\ req = [route |-> "t1", path |-> "/t1", method |-> "GET", client |-> "a", foo |-> 1,
              agent |-> ""]
    /\ \E count \in 1..3 :
         LET lim == cfg.route_limits["t1"][1]
             E == EvaluateLimits(<<>>, <<>>, <<lim>>, req, req.path, FALSE)
         IN /\ storage = [k \in DOMAIN E.st |-> [E.st[k] EXCEPT !.count = count]]
            /\ rstate = [complete |-> TRUE, view |-> E.hdr]
    /\ resp \in {Response(200, ra) : ra \in RetryAfterValues}
    /\ fb_storage = <<>>
    /\ storage_dead = FALSE
    /\ check_backend_count = 0
    /\ last_check_backend = 0
    /\ outages = 0
    /\ nreq = 1
    /\ pc = "unwind"
    /\ depth = 1
    /\ mw_inject = FALSE
    /\ evals = <<>>
    /\ tally = <<>>
    /\ asgi = NoResponder
    /\ conc = NoThreads

InjectNext == WrapperExit \/ MiddlewareExit \/ Complete

InjectSpec == InjectInit /\ [][InjectNext]_vars

-----------------------------------------------------------------------------
(* Decoration: while the application is set up, handlers of any signature, *)
(* sync and async, are decorated with limit(...); then the application     *)
(* starts.                                                                 *)

Decorations ==
    [name : {"t1", "t2"}, signature : {"request", "websocket", "none"},
     is_async : BOOLEAN, limit_value : {"static", "invalid", "dynamic"},
     limits : {<<PerIp(1, MINUTE, TRUE)>>},
     group : {LimitGroup(TRUE, <<PerIp(1, MINUTE, TRUE)>>)}]

DecorateInit ==
    /\ cfg = [Limiter("decorate", "get_ipaddr", <<Item(1, MINUTE)>>, <<>>, <<>>)
              EXCEPT !.routes = {"t0"}]
    /\ storage = <<>> /\ fb_storage = <<>>
    /\ storage_dead = FALSE
    /\ check_backend_count = 0
    /\ last_check_backend = 0
    /\ now = 0
    /\ backend_up = TRUE
    /\ tz = 0
    /\ outages = 0
    /\ nreq = 0
    /\ pc = "setup"
    /\ req = NoRequest
    /\ rstate = FreshState
    /\ resp = NoResponse
    /\ depth = 0
    /\ mw_inject = FALSE
    /\ evals = <<>>
    /\ tally = <<>>
    /\ asgi = NoResponder
    /\ conc = NoThreads

Decorate ==
    /\ pc = "setup"
    /\ Len(cfg.decorations) < MaxDecorations
    /\ \E d \in Decorations : cfg' = LimitDecorator(cfg, d)
    /\ UNCHANGED <<asgi, conc, storage, fb_storage, storage_dead, check_backend_count,
                   last_check_backend, now, backend_up, tz, outages, nreq, pc, req,
                   rstate, resp, depth, mw_inject, evals, tally>>

Start ==
    /\ pc = "setup"
    /\ pc' = "idle"
    /\ UNCHANGED <<asgi, conc, cfg, storage, fb_storage, storage_dead, check_backend_count,
                   last_check_backend, now, backend_up, tz, outages, nreq, req,
                   rstate, resp, depth, mw_inject, evals, tally>>

DecorateNext == Decorate \/ Start

DecorateSpec == DecorateInit /\ [][DecorateNext]_vars

-----------------------------------------------------------------------------
(* The backoff of the probes: a request to the decorated route of an       *)
(* application with a remote storage and fallback limits has passed the    *)
(* middleware, the storage having been declared dead earlier.  The backoff *)
(* is anywhere: the counter has any value it takes (0 to                   *)
(* MAX_BACKEND_CHECKS + 1), the last probe was at time 0 and any time up   *)
(* to MaxProbeTime has passed since; the backend is down or up again.      *)
BackoffInit ==
    /\ cfg = RemoteApp(<<Item(1, MINUTE)>>, FALSE, FALSE)
    /\ storage = <<>> /\ fb_storage = <<>>
    /\ storage_dead = TRUE
    /\ check_backend_count \in 0..(MAX_BACKEND_CHECKS + 1)
    /\ last_check_backend = 0
    /\ now \in 0..MaxProbeTime
    /\ backend_up \in BOOLEAN
    /\ tz = 0
    /\ outages = 1
    /\ nreq = 1
    /\ pc = "route"
    /\ req = [route |-> "t1", path |-> "/t1", method |-> "GET", client |-> "a", foo |-> 1,
              agent |-> ""]
    /\ rstate = FreshState
    /\ resp = NoResponse
    /\ depth = 0
    /\ mw_inject = FALSE
    /\ evals = <<>>
    /\ tally = <<>>
    /\ asgi = NoResponder
    /\ conc = NoThreads

BackoffNext == WrapperEnter \/ Endpoint \/ WrapperExit \/ MiddlewareExit \/ Complete

BackoffSpec == BackoffInit /\ [][BackoffNext]_vars

-----------------------------------------------------------------------------
(* The ASGI middleware.  Each HTTP request gets an _ASGIMiddlewareResponder *)
(* whose __call__ checks the limits and runs the application (or the error *)
(* response) with send_wrapper as its send; the application then sends one *)
(* http.response.start and one or more http.response.body messages.        *)

MaxBodies == 2

StartMessage(head) == [type |-> "http.response.start", head |-> head]
BodyMessage == [type |-> "http.response.body", head |-> NoResponse]

(* What a response sends once called: its start, then its body in n        *)
(* messages (one for a plain response, several for a streaming one).       *)
ResponseMessages(head, n) == <<StartMessage(head)>> \o [i \in 1..n |-> BodyMessage]

(* _ASGIMiddlewareResponder.__init__. *)
Responder ==
    [phase |-> "new", send |-> "", error_response |-> NoResponse,
     initial_message |-> NoResponse, inject_headers |-> FALSE,
     todo |-> <<>>, down |-> <<>>, injections |-> 0]

(* Limiter._inject_asgi_headers on the headers of the start message, with  *)
(* current_limit not unset: the three headers and Retry-After are set by   *)
(* assignment.                                                             *)
RECURSIVE InjectAsgiHeaders(_, _, _)
InjectAsgiHeaders(headers, current_limit, E) ==
    IF ~(enabled /\ cfg.headers_enabled /\ current_limit.state = "some")
    THEN [resp |-> headers, dead |-> E.storage_dead, raised |-> FALSE]
    ELSE
      LET use_fb == E.storage_dead /\ cfg.in_memory_fallback_enabled
      IN IF ~use_fb /\ ~backend_up
         THEN IF cfg.in_memory_fallback # <<>> /\ ~E.storage_dead
              THEN LET r == InjectAsgiHeaders(headers, current_limit,
                                              [E EXCEPT !.storage_dead = TRUE])
                   IN [r EXCEPT !.raised = @ \/ ~cfg.swallow_errors]
              ELSE [resp |-> headers, dead |-> E.storage_dead,
                    raised |-> ~cfg.swallow_errors]
         ELSE
           LET ws == GetWindowStats(IF use_fb THEN E.fb_storage ELSE E.storage,
                                    current_limit.item, current_limit.args, now)
               reset_in == 1 + ws.reset
               existing == headers.retry_after
               retry == IF existing.kind # "none"
                        THEN Max(DetermineRetryTime(existing), reset_in)
                        ELSE reset_in
           IN [resp |-> [headers EXCEPT
                           !.limit = <<current_limit.item.amount>>,
                           !.remaining = <<ws.remaining>>,
                           !.reset = <<reset_in>>,
                           !.retry_after = IF cfg.retry_after = "http-date"
                                           THEN [kind |-> "date", v |-> retry]
                                           ELSE [kind |-> "secs", v |-> retry - now]],
               dead |-> E.storage_dead, raised |-> FALSE]

(* send_wrapper's reading of self.request.state.view_rate_limit for the    *)
(* call of _inject_asgi_headers.                                           *)
InjectAsgiFromState(headers, view, E) ==
    IF view.state = "unset"
    THEN [resp |-> headers, dead |-> E.storage_dead, raised |-> TRUE]
    ELSE InjectAsgiHeaders(headers, view, E)

(* The applications behind the ASGI middleware: a route under the default  *)
(* limits, the same with the limiter disabled, and an exempt route beside  *)
(* a route under the default limits.                                       *)
AsgiApps ==
    {UndecoratedApp, [UndecoratedApp EXCEPT !.enabled = FALSE],
     [ExemptApp EXCEPT !.routes = {"t0", "t1"}]}

AsgiInit ==
    /\ cfg \in AsgiApps
    /\ storage = <<>> /\ fb_storage = <<>>
    /\ storage_dead = FALSE
    /\ check_backend_count = 0
    /\ last_check_backend = 0
    /\ now = 0
    /\ backend_up = TRUE
    /\ tz = 0
    /\ outages = 0
    /\ nreq = 0
    /\ pc = "idle"
    /\ req = NoRequest
    /\ rstate = FreshState
    /\ resp = NoResponse
    /\ depth = 0
    /\ mw_inject = FALSE
    /\ evals = <<>>
    /\ tally = <<>>
    /\ asgi = NoResponder
    /\ conc = NoThreads

(* SlowAPIASGIMiddleware.__call__ for an HTTP scope: a responder is made   *)
(* for the request.                                                        *)
AsgiArrive ==
    /\ pc = "idle"
    /\ nreq < MaxRequests
    /\ \E r \in Requests : \E path \in PathsOf(r.route) :
         req' = [r EXCEPT !.path = path]
    /\ nreq' = nreq + 1
    /\ asgi' = Responder
    /\ pc' = "asgi"
    /\ UNCHANGED <<conc, cfg, storage, fb_storage, storage_dead, check_backend_count,
                   last_check_backend, now, backend_up, tz, outages, rstate, resp,
                   depth, mw_inject, evals, tally>>

(* _ASGIMiddlewareResponder.__call__ up to the call of the application or  *)
(* of the error response; the endpoint answers 200 with its body in n      *)
(* messages, the error response of the exception handler has one.  An      *)
(* exception other than RateLimitExceeded fails in the default handler and *)
(* leaves the call.                                                        *)
AsgiCall ==
    /\ pc = "asgi"
    /\ asgi.phase = "new"
    /\ \E n \in 1..MaxBodies :
       LET name == req.route
           should_exempt == IsExemptRoute(name) \/ name \in DOMAIN cfg.route_limits
           app == ResponseMessages(Response(200, NoRetryAfter), n)
       IN IF ~enabled \/ should_exempt
          THEN /\ asgi' = [asgi EXCEPT !.phase = "app", !.send = "send", !.todo = app]
               /\ UNCHANGED <<storage, fb_storage, storage_dead, check_backend_count,
                              last_check_backend, rstate, evals, tally, pc>>
          ELSE IF ~(cfg.auto_check /\ ~rstate.complete)
          THEN /\ asgi' = [asgi EXCEPT !.phase = "app", !.send = "send_wrapper",
                                       !.todo = app]
               /\ UNCHANGED <<storage, fb_storage, storage_dead, check_backend_count,
                              last_check_backend, rstate, evals, tally, pc>>
          ELSE \E E \in {CheckRequestLimit(Engine, req, TRUE)} :
               \E h \in {RateLimitExceededHandler(E)} :
                  /\ storage' = E.storage
                  /\ fb_storage' = E.fb_storage
                  /\ check_backend_count' = E.check_backend_count
                  /\ last_check_backend' = E.last_check_backend
                  /\ evals' = E.evals
                  /\ tally' = IF E.out = "return" THEN tally ELSE Tally(tally, req, E)
                  /\ rstate' = [rstate EXCEPT !.view = E.view]
                  /\ storage_dead' = IF E.out = "exceeded" THEN h.dead ELSE E.storage_dead
                  /\ pc' = IF E.out = "error" \/ (E.out = "exceeded" /\ h.raised)
                           THEN "done" ELSE pc
                  /\ asgi' =
                       IF E.out = "error" \/ (E.out = "exceeded" /\ h.raised)
                       THEN [asgi EXCEPT !.phase = "raised"]
                       ELSE IF E.out = "exceeded"
                       THEN [asgi EXCEPT !.phase = "error", !.send = "send_wrapper",
                                         !.todo = ResponseMessages(h.resp, 1)]
                       ELSE [asgi EXCEPT !.phase = "app", !.send = "send_wrapper",
                                         !.inject_headers = TRUE, !.todo = app]
    /\ UNCHANGED <<conc, cfg, now, backend_up, tz, outages, nreq, req, resp, depth,
                   mw_inject>>

(* The application (or the error response) sends its next message: to the  *)
(* server's send when the middleware stepped aside, else to send_wrapper,  *)
(* which keeps the start message and, on a body message, sets the status   *)
(* of the error response, injects the headers and sends the start message  *)
(* and then the body message.                                              *)
AsgiSend ==
    /\ pc = "asgi"
    /\ asgi.phase \in {"app", "error"}
    /\ asgi.todo # <<>>
    /\ LET message == Head(asgi.todo)
           rest == [asgi EXCEPT !.todo = Tail(@)]
       IN IF asgi.send = "send"
          THEN /\ asgi' = [rest EXCEPT !.down = Append(@, message)]
               /\ UNCHANGED <<storage_dead, pc>>
          ELSE IF message.type = "http.response.start"
          THEN /\ asgi' = [rest EXCEPT !.initial_message = message.head]
               /\ UNCHANGED <<storage_dead, pc>>
          ELSE LET status == IF asgi.error_response # NoResponse
                             THEN [asgi.initial_message
                                   EXCEPT !.status = asgi.error_response.status]
                             ELSE asgi.initial_message
                   r == IF asgi.inject_headers
                        THEN InjectAsgiFromState(status, rstate.view, Engine)
                        ELSE [resp |-> status, dead |-> storage_dead, raised |-> FALSE]
               IN /\ storage_dead' = r.dead
                  /\ pc' = IF r.raised THEN "done" ELSE pc
                  /\ asgi' =
                       IF r.raised
                       THEN [asgi EXCEPT !.phase = "raised",
                                         !.injections = @ + 1]
                       ELSE [rest EXCEPT
                               !.initial_message = r.resp,
                               !.injections = IF asgi.inject_headers THEN @ + 1 ELSE @,
                               !.down = @ \o <<StartMessage(r.resp), message>>]
    /\ UNCHANGED <<conc, cfg, storage, fb_storage, check_backend_count,
                   last_check_backend, now, backend_up, tz, outages, nreq, req,
                   rstate, resp, depth, mw_inject, evals, tally>>

(* The application has sent its last message, or the call was left by an   *)
(* exception: the responder and the request are gone.                      *)
AsgiReturn ==
    /\ pc \in {"asgi", "done"}
    /\ \/ asgi.phase \in {"app", "error"} /\ asgi.todo = <<>>
       \/ asgi.phase = "raised"
    /\ pc' = "idle"
    /\ asgi' = NoResponder
    /\ req' = NoRequest
    /\ rstate' = FreshState
    /\ evals' = <<>>
    /\ UNCHANGED <<conc, cfg, storage, fb_storage, storage_dead, check_backend_count,
                   last_check_backend, now, backend_up, tz, outages, nreq, resp,
                   depth, mw_inject, tally>>

AsgiNext == AsgiArrive \/ AsgiCall \/ AsgiSend \/ AsgiReturn \/ Tick

AsgiSpec == AsgiInit /\ [][AsgiNext]_vars

-----------------------------------------------------------------------------
(* Sync handlers on worker threads.  The route has one dynamic limit whose *)
(* provider depends on the key; its LimitGroup is one object shared by all *)
(* requests.  Each thread runs _check_request_limit for its request: it    *)
(* calls with_request (which writes the group's request) and then iterates *)
(* the group (which reads it); another thread may run between the two.     *)

MaxThreads == 2

Threads == 1..MaxThreads

IdleThread ==
    [pc |-> "idle", request |-> NoRequest, provider_request |-> NoRequest,
     limits |-> <<>>, status |-> 0]

ConcInit ==
    /\ cfg = DynamicKeyApp
    /\ storage = <<>> /\ fb_storage = <<>>
    /\ storage_dead = FALSE
    /\ check_backend_count = 0
    /\ last_check_backend = 0
    /\ now = 0
    /\ backend_up = TRUE
    /\ tz = 0
    /\ outages = 0
    /\ nreq = 0
    /\ pc = "threads"
    /\ req = NoRequest
    /\ rstate = FreshState
    /\ resp = NoResponse
    /\ depth = 0
    /\ mw_inject = FALSE
    /\ evals = <<>>
    /\ tally = <<>>
    /\ asgi = NoResponder
    /\ conc = [request |-> NoRequest, threads |-> [t \in Threads |-> IdleThread]]

(* A request is handed to a free worker thread. *)
ConcArrive ==
    /\ nreq < MaxRequests
    /\ \E t \in Threads : \E r \in Requests : \E path \in PathsOf(r.route) :
          /\ conc.threads[t].pc = "idle"
          /\ conc' = [conc EXCEPT !.threads[t] =
                        [IdleThread EXCEPT !.pc = "with_request",
                                           !.request = [r EXCEPT !.path = path]]]
    /\ nreq' = nreq + 1
    /\ UNCHANGED <<asgi, cfg, storage, fb_storage, storage_dead, check_backend_count,
                   last_check_backend, now, backend_up, tz, outages, pc, req, rstate,
                   resp, depth, mw_inject, evals, tally>>

(* lim.with_request(request): self.request = request. *)
ConcWithRequest ==
    /\ \E t \in Threads :
          /\ conc.threads[t].pc = "with_request"
          /\ conc' = [conc EXCEPT !.request = conc.threads[t].request,
                                  !.threads[t].pc = "iter"]
    /\ UNCHANGED <<asgi, cfg, storage, fb_storage, storage_dead, check_backend_count,
                   last_check_backend, now, backend_up, tz, outages, nreq, pc, req,
                   rstate, resp, depth, mw_inject, evals, tally>>

(* list(group): __iter__ calls the provider with the key of self.request;  *)
(* then the rest of _check_request_limit: the limits are evaluated for the *)
(* thread's request, and the handler answers or RateLimitExceeded is       *)
(* raised.                                                                 *)
ConcIter ==
    /\ \E t \in Threads :
          /\ conc.threads[t].pc = "iter"
          /\ LET request == conc.threads[t].request
                 limits == Chain(cfg.dynamic_route_limits[request.route], conc.request)
             IN \E acc \in {EvaluateLimits(storage, fb_storage, limits, request,
                                           EndpointKey(request), FALSE)} :
                   /\ storage' = acc.st
                   /\ conc' = [conc EXCEPT
                                 !.threads[t].pc = "done",
                                 !.threads[t].provider_request = conc.request,
                                 !.threads[t].limits = limits,
                                 !.threads[t].status = IF acc.failed THEN 429 ELSE 200]
    /\ UNCHANGED <<asgi, cfg, fb_storage, storage_dead, check_backend_count,
                   last_check_backend, now, backend_up, tz, outages, nreq, pc, req,
                   rstate, resp, depth, mw_inject, evals, tally>>

(* The response is sent; the thread is free again. *)
ConcReturn ==
    /\ \E t \in Threads :
          /\ conc.threads[t].pc = "done"
          /\ conc' = [conc EXCEPT !.threads[t] = IdleThread]
    /\ UNCHANGED <<asgi, cfg, storage, fb_storage, storage_dead, check_backend_count,
                   last_check_backend, now, backend_up, tz, outages, nreq, pc, req,
                   rstate, resp, depth, mw_inject, evals, tally>>

ConcNext == ConcArrive \/ ConcWithRequest \/ ConcIter \/ ConcReturn

ConcSpec == ConcInit /\ [][ConcNext]_vars

-----------------------------------------------------------------------------
(* Recovery.  The storage of an application with a remote storage and      *)
(* fallback limits has been declared dead; the backoff is anywhere.  The   *)
(* backend is down for MaxDownTime seconds at most and stays up once it is *)
(* up.  Requests to the decorated route keep arriving, each MaxGap seconds *)
(* at most after the one before, as long as the clock of the model runs    *)
(* (MaxProbeTime seconds beyond MaxDownTime: longer than the longest       *)
(* backoff, 2^MAX_BACKEND_CHECKS); every request that arrived is handled.  *)

MaxDownTime == 3
MaxGap == 2

LiveInit ==
    /\ cfg = RemoteApp(<<Item(1, MINUTE)>>, FALSE, FALSE)
    /\ storage = <<>> /\ fb_storage = <<>>
    /\ storage_dead = TRUE
    /\ check_backend_count \in 0..(MAX_BACKEND_CHECKS + 1)
    /\ last_check_backend = 0
    /\ now = 0
    /\ backend_up \in BOOLEAN
    /\ tz = 0
    /\ outages = 1
    /\ nreq = 0
    /\ pc = "idle"
    /\ req = NoRequest
    /\ rstate = FreshState
    /\ resp = NoResponse
    /\ depth = 0
    /\ mw_inject = FALSE
    /\ evals = <<>>
    /\ tally = <<>>
    /\ asgi = NoResponder
    /\ conc = NoThreads

(* Some seconds pass (the stores drop what has expired) and the next       *)
(* request arrives.                                                        *)
LiveArrive ==
    /\ pc = "idle"
    /\ \E d \in 1..MaxGap :
          /\ now + d <= (IF backend_up THEN MaxDownTime + MaxProbeTime ELSE MaxDownTime)
          /\ now' = now + d
          /\ storage' = Expire(storage, now + d)
          /\ fb_storage' = Expire(fb_storage, now + d)
    /\ \E r \in Requests : \E path \in PathsOf(r.route) :
         req' = [r EXCEPT !.path = path]
    /\ nreq' = nreq + 1
    /\ pc' = IF cfg.middleware THEN "middleware" ELSE "route"
    /\ UNCHANGED <<asgi, conc, cfg, storage_dead, check_backend_count,
                   last_check_backend, backend_up, tz, outages, rstate, resp,
                   depth, mw_inject, evals, tally>>

LiveNext ==
    \/ LiveArrive
    \/ MiddlewareDispatch
    \/ WrapperEnter
    \/ Endpoint
    \/ WrapperExit
    \/ MiddlewareExit
    \/ Complete
    \/ BackendRecovers

(* Requests keep arriving, every request is handled to its end, and the    *)
(* backend comes up.                                                       *)
LiveSpec ==
    /\ LiveInit /\ [][LiveNext]_vars
    /\ WF_vars(LiveArrive)
    /\ WF_vars(MiddlewareDispatch) /\ WF_vars(WrapperEnter) /\ WF_vars(Endpoint)
    /\ WF_vars(WrapperExit) /\ WF_vars(MiddlewareExit) /\ WF_vars(Complete)
    /\ WF_vars(BackendRecovers)

-----------------------------------------------------------------------------
(* Properties.                                                             *)

LastEval == evals[Len(evals)]

(* The counter of a limit for the request in flight, in a store. *)
Used(st, item, key) == StorageGet(st, KeyFor(item, <<key, req.path, "">>), now)

(* The evaluation step of a request: a pass of _check_request_limit ran. *)
Evaluates == Len(evals') > Len(evals)

(* C1: a route with the single static limit N per window, cost 1, per      *)
(* client: of the requests a client makes inside one window exactly the   *)
(* first N pass and every further one is answered 429; the window is       *)
(* counted afresh once it has rolled over.                                 *)
C1_FirstNPerWindow ==
    cfg = SingleApp =>
       LET N == cfg.route_limits["t1"][1].limit.amount
       IN /\ \A k \in DOMAIN tally : tally[k].allowed = Min(tally[k].total, N)
          /\ pc = "done" =>
               /\ evals # <<>>
               /\ resp.status = IF LastEval.out = "exceeded" THEN 429 ELSE 200
               /\ LastEval.out = "exceeded" <=>
                    tally[<<req.route, req.client>>].total > N

(* C1's case: a client was rejected in one window and passes in the next. *)
C1_Witness ==
    /\ cfg = SingleApp
    /\ pc = "done" /\ resp.status = 200
    /\ tally[<<req.route, req.client>>].rolled

(* C2: a request goes on to its handler only if the hit of every           *)
(* applicable limit succeeded (the counter with this request's cost is     *)
(* within the amount); a failing hit rejects it.  (A hit that raises is    *)
(* the matter of C8 and C9.)  With the limits 1/minute per client and 2/minute   *)
(* for the shared key "test" stacked on one route, a request is rejected   *)
(* when its client's limit is exhausted whatever the shared counter, and   *)
(* when the shared limit is exhausted whatever the client.                 *)
C2_EveryLimitMustPass ==
    [][Evaluates =>
         LET ev == evals'[Len(evals')]
             st == IF ev.use_fb THEN fb_storage' ELSE storage'
             proceeds == pc' = "route"
             rejected == pc' \in {"mw_post", "done"} /\ resp'.status = 429
         IN /\ (proceeds /\ ev.out = "ok") =>
                 /\ Len(ev.hits) = Len(ev.limits)
                 /\ \A i \in 1..Len(ev.hits) :
                      \/ ev.hits[i].res = "skipped"
                      \/ /\ ev.hits[i].res = "ok"
                         /\ ~ev.limits[i].limit.pass_always =>
                              /\ KeyFor(ev.limits[i].limit, ev.hits[i].args) \in DOMAIN st
                              /\ st[KeyFor(ev.limits[i].limit, ev.hits[i].args)].count
                                   <= ev.limits[i].limit.amount
            /\ ev.out = "exceeded" => rejected
            /\ cfg = StackedApp =>
                 LET ip == Used(storage, Item(1, MINUTE), req.client)
                     shared == Used(storage, Item(2, MINUTE), "test")
                 IN /\ proceeds \/ rejected
                    /\ ip >= 1 => rejected
                    /\ shared >= 2 => rejected
                    /\ (ip < 1 /\ shared < 2) => proceeds]_vars

(* C2's cases: a fresh client is rejected by the exhausted shared limit;   *)
(* or a client is rejected by its own limit while the shared one has room. *)
C2_Witness ==
    /\ cfg = StackedApp
    /\ pc = "done" /\ resp.status = 429
    /\ \/ /\ Used(storage, Item(1, MINUTE), req.client) = 1
          /\ Used(storage, Item(2, MINUTE), "test") > 2
       \/ /\ Used(storage, Item(1, MINUTE), req.client) > 1
          /\ Used(storage, Item(2, MINUTE), "test") < 2

(* C3: when a limit fails, the binding of the request is the failing limit *)
(* with its own key-parts, also when a limit with a smaller amount passed  *)
(* earlier in the same request, and the 429 response reports it: every     *)
(* Limit header is its amount and nothing remains.                         *)
C3_BindingIsFailingLimit ==
    (evals # <<>> /\ LastEval.out = "exceeded") =>
       LET hit == LastEval.hits[Len(LastEval.hits)]
       IN /\ hit.res = "exceeded"
          /\ rstate.view = ViewOf(hit.lim.limit, hit.args)
          /\ pc \in {"mw_post", "done"} =>
               /\ resp.status = 429
               /\ resp.limit # <<>>
               /\ \A i \in 1..Len(resp.limit) : resp.limit[i] = hit.lim.limit.amount
               /\ \A i \in 1..Len(resp.remaining) : resp.remaining[i] = 0

(* C3's case: the failing limit has the larger amount; the smaller one     *)
(* passed before it.                                                       *)
C3_Witness ==
    /\ pc = "done" /\ resp.status = 429
    /\ evals # <<>> /\ Len(LastEval.hits) = 2
    /\ LastEval.hits[1].res = "ok"
    /\ LastEval.hits[1].lim.limit.amount < LastEval.hits[2].lim.limit.amount
    /\ rstate.view.item = LastEval.hits[2].lim.limit
    /\ resp.limit = <<LastEval.hits[2].lim.limit.amount>>

(* C4: with the constant cost c on a limit of N per window exactly N \div c *)
(* requests of a client pass in a window (cost 10 on 50: 5; cost 15: 3);   *)
(* a callable cost is computed from each request and is what the request   *)
(* adds to the counter.                                                    *)
C4_CostCharged ==
    [][Evaluates =>
         /\ cfg = CostApp =>
              LET t == tally'[<<req.route, req.client>>]
                  lim == cfg.route_limits[req.route][1]
              IN /\ t.allowed = Min(t.total, lim.limit.amount \div lim.cost)
                 /\ t.allowed <= IF req.route = "t1" THEN 5 ELSE 3
                 /\ t.total > (IF req.route = "t1" THEN 5 ELSE 3) => resp'.status = 429
         /\ cfg = CallableCostApp =>
              LET item == cfg.route_limits[req.route][1].limit
              IN /\ Used(storage', item, req.client)
                      = Used(storage, item, req.client) + req.foo
                 /\ evals'[1].hits[1].cost = req.foo]_vars

(* C4's cases: the sixth request at cost 10 is the first to be rejected,   *)
(* and so is the fourth at cost 15.                                        *)
C4_Witness ==
    /\ cfg = CostApp
    /\ pc = "done" /\ resp.status = 429
    /\ LET t == tally[<<req.route, req.client>>]
       IN \/ req.route = "t1" /\ t.total = 6 /\ t.allowed = 5
          \/ req.route = "t2" /\ t.total = 4 /\ t.allowed = 3

(* The limits registered for a route by its decorators. *)
RouteSpecificLimits(name) ==
    Lookup(cfg.route_limits, name, <<>>)
    \o Chain(Lookup(cfg.dynamic_route_limits, name, <<>>), req)

IsDefaultLimit(lim) ==
    \E i \in 1..Len(cfg.default_limits) :
       \E j \in 1..Len(cfg.default_limits[i].limits) : cfg.default_limits[i].limits[j] = lim

(* C5: where the fallback limits are not in use, the default limits are    *)
(* among the limits evaluated for a request exactly when its route has no  *)
(* route-specific limit or none of them has override_defaults; when one    *)
(* has, no default limit is evaluated.                                     *)
C5_DefaultsUnlessOverridden ==
    \A e \in 1..Len(evals) :
       LET ev == evals[e]
           rl == RouteSpecificLimits(req.route)
           merged == rl = <<>> \/ \A i \in 1..Len(rl) : ~rl[i].override_defaults
       IN (cfg.default_limits # <<>> /\ ~ev.fb_limits) =>
            /\ (\E i \in 1..Len(ev.limits) : IsDefaultLimit(ev.limits[i])) <=> merged
            /\ ~merged => \A i \in 1..Len(ev.hits) : ~IsDefaultLimit(ev.hits[i].lim)

(* C5's case: a route limit without override_defaults and the default      *)
(* limit are both hit by one request.                                      *)
C5_Witness ==
    /\ cfg = MergeApp(FALSE)
    /\ pc = "done"
    /\ Len(evals) = 1 /\ Len(evals[1].hits) = 2
    /\ ~IsDefaultLimit(evals[1].hits[1].lim) /\ IsDefaultLimit(evals[1].hits[2].lim)

(* C6: a request to a route decorated with limit("exempt") is never        *)
(* rejected and its header injection raises nothing: its response is the   *)
(* handler's.                                                              *)
C6_ExemptLiteralNeverRejected ==
    (cfg.name = "exempt_literal" /\ pc = "done") => resp.status = 200

(* C6's case: requests to such a route have been answered. *)
C6_Witness ==
    /\ cfg.name = "exempt_literal"
    /\ pc = "done" /\ nreq >= 2 /\ resp.status = 200

(* The counters a pass has incremented. *)
Incremented(ev) ==
    {<<ev.hits[i].lim.limit, ev.hits[i].args, ev.hits[i].fb>> :
        i \in {j \in 1..Len(ev.hits) : ev.hits[j].res \in {"ok", "exceeded"}}}

(* C7: in the lifecycle of one request, after a pass of the evaluation has *)
(* completed no later pass evaluates anything (only the retry after a      *)
(* backend exception follows another pass), and no counter is incremented  *)
(* by two passes.                                                          *)
C7_EvaluatedOnce ==
    \A i, j \in 1..Len(evals) :
       i < j => /\ evals[i].out = "error"
                /\ Incremented(evals[i]) \cap Incremented(evals[j]) = {}

(* C7's case: the wrappers of two stacked decorators have each been        *)
(* entered and the request was evaluated once.                             *)
C7_Witness ==
    /\ cfg = StackedApp
    /\ pc = "route" /\ depth = 2
    /\ Len(evals) = 1 /\ rstate.complete

(* C8: with fallback limits configured, a pass whose call of the primary   *)
(* backend raises is followed by a retry with the storage marked dead, and *)
(* every pass that finds the storage dead, unless its probe succeeds,      *)
(* evaluates the fallback limits against the fallback store.               *)
C8_FallbackLimitsWhileDead ==
    cfg.in_memory_fallback # <<>> =>
       \A i \in 1..Len(evals) :
          LET ev == evals[i]
          IN /\ (ev.out = "error" /\ ~ev.dead_before) =>
                  /\ storage_dead
                  /\ i < Len(evals)
                  /\ evals[i + 1].dead_before
             /\ (ev.dead_before /\ ev.probe # "ok") => (ev.use_fb /\ ev.fb_limits)
             /\ ev.use_fb <=> (ev.dead_before /\ ev.probe # "ok")

(* C8's case: the primary backend raised, the request was evaluated again  *)
(* with the fallback limits and has been answered.                         *)
C8_Witness ==
    /\ cfg.in_memory_fallback # <<>>
    /\ pc = "done" /\ storage_dead
    /\ Len(evals) = 2
    /\ evals[1].out = "error" /\ evals[2].fb_limits /\ evals[2].use_fb
    /\ resp.status \in {200, 429}

(* C9: a RateLimitExceeded raised by the evaluation leaves                 *)
(* _check_request_limit: the request is answered 429 whatever              *)
(* swallow_errors, no retry follows it, and storage_dead is what it was    *)
(* when the failing pass began.                                            *)
C9_RateLimitExceededPropagates ==
    [][Evaluates =>
         LET ev == evals'[Len(evals')]
         IN /\ \A i \in 1..(Len(evals') - 1) : evals'[i].out # "exceeded"
            /\ ev.out = "exceeded" =>
                 /\ pc' \in {"mw_post", "done"}
                 /\ resp'.status = 429
                 /\ ~rstate'.complete
                 /\ storage_dead' = (ev.dead_before /\ ev.probe # "ok")]_vars

(* C9's case: a request is rejected although swallow_errors is set and the *)
(* failover is enabled, the storage not being dead.                        *)
C9_Witness ==
    /\ cfg.swallow_errors /\ cfg.in_memory_fallback_enabled
    /\ pc = "done" /\ resp.status = 429
    /\ ~storage_dead

(* The instant a Retry-After value denotes: an HTTP-date is that instant   *)
(* (in GMT), integer seconds count from now.                               *)
RetryAfterEpoch(header) == IF header.kind = "date" THEN header.v ELSE now + header.v

(* C10: when the response carries a Retry-After later than the computed    *)
(* reset, header injection writes no earlier one: what it writes denotes   *)
(* the later of the two, the existing value.                               *)
C10_RetryAfterNeverDecreased ==
    [][(pc = "unwind" /\ resp.retry_after.kind # "none") =>
         LET computed == 1 + GetWindowStats(storage, rstate.view.item,
                                            rstate.view.args, now).reset
             existing == RetryAfterEpoch(resp.retry_after)
         IN existing > computed =>
              /\ resp'.retry_after.kind # "none"
              /\ RetryAfterEpoch(resp'.retry_after) = existing]_vars

(* C10's case: an existing Retry-After in integer seconds has been kept. *)
C10_Witness ==
    /\ pc = "mw_post"
    /\ resp.retry_after.kind = "secs"
    /\ resp.reset # <<>> /\ RetryAfterEpoch(resp.retry_after) > resp.reset[1]

(* C11: a request to a handler marked with the exempt decorator is never   *)
(* evaluated (no pass runs, no counter exists for its path) and never      *)
(* answered 429, whether or not a limit decorator wraps the handler, and   *)
(* the handler that is only exempt answers every request itself; the       *)
(* undecorated route beside it stays under the default limit: one request  *)
(* of a client per window passes.  (What the header injection of a wrapper *)
(* around an exempt handler finds is the matter of C34.)                   *)
C11_ExemptNeverLimited ==
    /\ req.route \in cfg.exempt_routes =>
         /\ evals = <<>>
         /\ resp.status # 429
         /\ (pc = "done" /\ Wrappers(req.route) = 0) => resp.status = 200
    /\ \A k \in DOMAIN storage \cup DOMAIN fb_storage :
         \A r \in cfg.exempt_routes : k[1][2] # PathOf(r)
    /\ cfg = ExemptApp =>
         /\ \A k \in DOMAIN tally : tally[k].allowed = Min(tally[k].total, 1)
         /\ (pc = "done" /\ req.route = "t0") =>
              resp.status = IF tally[<<"t0", req.client>>].total > 1 THEN 429 ELSE 200

(* C11's case: the exempt handler answers a third request in the window in *)
(* which the undecorated route has rejected the same client.               *)
C11_Witness ==
    /\ cfg = ExemptApp
    /\ pc = "done" /\ req.route = "t1" /\ resp.status = 200
    /\ <<"t1", req.client>> \notin DOMAIN tally
    /\ <<"t0", req.client>> \in DOMAIN tally
    /\ tally[<<"t0", req.client>>].total > tally[<<"t0", req.client>>].allowed
    /\ nreq >= 5

(* C12: with the limiter disabled no pass of the evaluation runs, no       *)
(* counter is created in either store, no response carries a rate-limit    *)
(* header or a Retry-After, and every request, to the decorated and to the *)
(* undecorated route, is answered by its handler.                          *)
C12_DisabledDoesNothing ==
    ~cfg.enabled =>
       /\ evals = <<>>
       /\ storage = <<>> /\ fb_storage = <<>>
       /\ resp.limit = <<>> /\ resp.remaining = <<>> /\ resp.reset = <<>>
       /\ resp.retry_after = NoRetryAfter
       /\ resp.status \in {0, 200}
       /\ pc = "done" => resp.status = 200

(* C12's case: the decorated route of the disabled limiter answers a third *)
(* request, its limit being one per minute.                                *)
C12_Witness ==
    /\ ~cfg.enabled
    /\ pc = "done" /\ req.route = "t1" /\ resp.status = 200
    /\ nreq >= 3 /\ now = 0

(* C13: two routes decorated with the same shared limit of N per window    *)
(* count on one counter per key, that of the scope: no counter of a route  *)
(* exists, of the requests a client makes to the two routes together the   *)
(* first N pass, and a request is answered 429 exactly when the shared     *)
(* counter of its client has gone over N, whichever route it is for.       *)
C13_SharedScopeOneCounter ==
    cfg = SharedApp =>
       LET N == 2
           shared(c) == StorageGet(storage, KeyFor(Item(N, MINUTE),
                                                   <<c, "somescope", "">>), now)
           of(r, c) == Lookup(tally, <<r, c>>, [total |-> 0, allowed |-> 0])
       IN /\ \A k \in DOMAIN storage :
               \E c \in cfg.clients : k = KeyFor(Item(N, MINUTE), <<c, "somescope", "">>)
          /\ \A c \in cfg.clients :
               /\ of("t1", c).total + of("t2", c).total = shared(c)
               /\ of("t1", c).allowed + of("t2", c).allowed = Min(shared(c), N)
          /\ pc = "done" => resp.status = IF shared(req.client) > N THEN 429 ELSE 200

(* C13's case: a client's first request to one route is rejected after its *)
(* N requests to the other route have passed.                              *)
C13_Witness ==
    /\ cfg = SharedApp
    /\ pc = "done" /\ req.route = "t2" /\ resp.status = 429
    /\ <<"t1", req.client>> \in DOMAIN tally
    /\ tally[<<"t1", req.client>>].allowed = 2
    /\ tally[<<"t2", req.client>>].total = 1

(* C14: with one handler reached by several paths under a limit of one per *)
(* minute, the key style "url" counts each path on a counter of its own    *)
(* (a request is rejected only when its own path's counter is exhausted),  *)
(* and the key style "endpoint" counts all the paths on the one counter of *)
(* the handler (the second request is rejected whatever its path).         *)
C14_KeyStyle ==
    cfg.name = "key_style" =>
       LET item == Item(1, MINUTE)
           used(scope) == StorageGet(storage, KeyFor(item, <<"test", scope, "">>), now)
           t == Lookup(tally, <<"t1", "a">>, [total |-> 0, allowed |-> 0])
       IN IF cfg.key_style = "url"
          THEN /\ DOMAIN storage \subseteq
                    {KeyFor(item, <<"test", p, "">>) : p \in cfg.paths["t1"]}
               /\ t.total = used("/t1/param_one") + used("/t1/param_two")
               /\ t.allowed = Min(used("/t1/param_one"), 1) + Min(used("/t1/param_two"), 1)
               /\ pc = "done" => resp.status = IF used(req.path) > 1 THEN 429 ELSE 200
          ELSE /\ DOMAIN storage \subseteq {KeyFor(item, <<"test", "t1", "">>)}
               /\ t.total = used("t1")
               /\ t.allowed = Min(used("t1"), 1)
               /\ pc = "done" => resp.status = IF used("t1") > 1 THEN 429 ELSE 200

(* C14's case: with the key style "endpoint" the second request is         *)
(* rejected, the first having come by the other path.                      *)
C14_Witness ==
    /\ cfg.name = "key_style" /\ cfg.key_style = "endpoint"
    /\ pc = "done" /\ nreq = 2 /\ resp.status = 429
    /\ req.path = "/t1/param_two"
    /\ tally[<<"t1", "a">>].total = 2

(* C15: a limit provider with a `key` parameter is called for every        *)
(* request with the key of that request, and the limit it returns for that *)
(* key is the one enforced: the decorator's pass evaluates exactly that    *)
(* limit, and of a key's requests in the window as many pass as the limit  *)
(* returned for it allows (1 for "user", 2 for "admin").                   *)
C15_ProviderResolvedPerRequest ==
    cfg = DynamicKeyApp =>
       LET N(key) == IF key = "admin" THEN 2 ELSE 1
       IN /\ \A e \in 1..Len(evals) :
               ~evals[e].in_middleware =>
                  /\ evals[e].limits = <<PerIp(N(req.client), MINUTE, TRUE)>>
                  /\ evals[e].hits[1].args = <<req.client, req.path, "">>
          /\ \A k \in DOMAIN tally : tally[k].allowed = Min(tally[k].total, N(k[2]))
          /\ pc = "done" =>
               resp.status = IF tally[<<"t1", req.client>>].total > N(req.client)
                             THEN 429 ELSE 200

(* C15's case: the second request of "admin" passes after the second       *)
(* request of "user" was rejected.                                         *)
C15_Witness ==
    /\ cfg = DynamicKeyApp
    /\ pc = "done" /\ req.client = "admin" /\ resp.status = 200
    /\ tally[<<"t1", "admin">>].total = 2
    /\ <<"t1", "user">> \in DOMAIN tally
    /\ tally[<<"t1", "user">>].total > tally[<<"t1", "user">>].allowed

(* What the exempt_when predicate of a limit says of a request. *)
ExemptFor(lim, request) ==
    CASE lim.exempt_when = "return_true" -> TRUE
      [] lim.exempt_when = "dynamic" -> request.agent = "exempt"
      [] OTHER -> FALSE

(* C16: a limit with an exempt_when predicate is skipped for the requests  *)
(* of which the predicate is true (no hit, no rejection, the handler       *)
(* answers) and is hit for those of which it is false (one request per     *)
(* window passes), request by request, for a predicate without parameter   *)
(* and for a predicate that takes the request.                             *)
C16_ExemptWhenSkips ==
    /\ \A e \in 1..Len(evals) :
         \A i \in 1..Len(evals[e].hits) :
            LET hit == evals[e].hits[i]
            IN hit.lim.exempt_when # "none" =>
                 IF ExemptFor(hit.lim, req) THEN hit.res = "skipped"
                 ELSE hit.res \in {"ok", "exceeded"}
    /\ (cfg = ExemptWhenApp /\ pc = "done") =>
         LET lim == cfg.route_limits[req.route][1]
         IN resp.status =
              IF ~ExemptFor(lim, req) /\ Used(storage, lim.limit, req.client) > 1
              THEN 429 ELSE 200

(* C16's case: a request whose User-Agent is "exempt" has gone through the *)
(* limit whose predicate takes the request, and has been answered.         *)
C16_Witness ==
    /\ cfg = ExemptWhenApp
    /\ pc = "done" /\ req.route = "t3" /\ req.agent = "exempt"
    /\ Len(evals) = 1 /\ Len(evals[1].hits) = 1

(* The step on which headers are injected into the response of the request *)
(* in flight, and what the injected headers must be: those of the binding, *)
(* from the window statistics of the store in use.                         *)
Injects == Len(resp'.limit) > Len(resp.limit)

HeadersOfBinding ==
    LET view == rstate'.view
        st == IF storage_dead' /\ cfg.in_memory_fallback_enabled
              THEN fb_storage' ELSE storage'
        ws == GetWindowStats(st, view.item, view.args, now)
        n == Len(resp'.limit)
    IN /\ view.state = "some"
       /\ resp'.limit[n] = view.item.amount
       /\ Len(resp'.remaining) = n /\ resp'.remaining[n] = ws.remaining
       /\ Len(resp'.reset) = n /\ resp'.reset[n] = 1 + ws.reset

(* The limits a pass has hit without failure. *)
Passed(ev) == {i \in 1..Len(ev.hits) : ev.hits[i].res = "ok"}

C18_MissingRequestParameterRaises ==
    /\ \A i \in 1..Len(cfg.decorations) :
         LET d == cfg.decorations[i]
         IN /\ d.raised <=> d.signature \notin {"request", "websocket"}
            /\ d.raised => d.wrapper = "none"
            /\ ~d.raised => d.wrapper = IF d.is_async THEN "async_wrapper"
                                        ELSE "sync_wrapper"
    /\ \A name \in cfg.routes \ {"t0"} :
         \E i \in 1..Len(cfg.decorations) :
            cfg.decorations[i].name = name /\ ~cfg.decorations[i].raised
    /\ pc = "setup" => nreq = 0

(* C18's case: the decorations of a sync and of an async handler without   *)
(* the parameter have both raised.                                         *)
C18_Witness ==
    /\ pc = "idle"
    /\ \E i, j \in 1..Len(cfg.decorations) :
         /\ cfg.decorations[i].raised /\ cfg.decorations[i].is_async
         /\ cfg.decorations[j].raised /\ ~cfg.decorations[j].is_async

(* C19: every request to a route that is not exempt, decorated or not, is  *)
(* counted against every application limit, on the one counter of its key  *)
(* and the scope "global": by the time it is answered each application     *)
(* limit has been hit for it (up to the first that fails), and it is       *)
(* rejected when that counter is exhausted.                                *)
C19_ApplicationLimitsEverywhere ==
    (cfg.enabled /\ pc = "done" /\ req.route \notin cfg.exempt_routes) =>
       LET application == Chain(cfg.application_limits, NoRequest)
           hit(n) == \E e \in 1..Len(evals) : \E i \in 1..Len(evals[e].hits) :
                        /\ evals[e].hits[i].lim = application[n]
                        /\ evals[e].hits[i].args = <<req.client, "global", "">>
                        /\ evals[e].hits[i].res \in {"ok", "exceeded"}
       IN /\ \A n \in 1..Len(application) :
               hit(n) \/ \E m \in 1..(n - 1) :
                            StorageGet(storage, KeyFor(application[m].limit,
                                                       <<req.client, "global", "">>), now)
                               > application[m].limit.amount
          /\ \A n \in 1..Len(application) :
               StorageGet(storage, KeyFor(application[n].limit,
                                          <<req.client, "global", "">>), now)
                  > application[n].limit.amount => resp.status = 429

(* C19's case: a request to the decorated route has been answered after    *)
(* the requests to the undecorated route exhausted the application limit.  *)
C19_Witness ==
    /\ cfg = ApplicationLimitApp
    /\ pc = "done" /\ req.route = "t1"
    /\ StorageGet(storage, KeyFor(Item(2, MINUTE), <<req.client, "global", "">>), now) >= 2
    /\ Len(evals) = 1

(* The step on which the handler body runs: it alone makes a 200 response. *)
HandlerRuns == resp.status # 200 /\ resp'.status = 200

(* C20: the handler body of a request runs only after the evaluation of    *)
(* the request has completed without rejection: no pass has raised         *)
(* RateLimitExceeded, the pass that is due (the decorator's for a          *)
(* decorated route, the middleware's for an undecorated one) has run       *)
(* unless the route is exempt, and the last pass has ended without         *)
(* exception or with a swallowed one.  The step on which a pass raises     *)
(* RateLimitExceeded puts the 429 response in place and takes the request  *)
(* past its handler.                                                       *)
C20_HandlerOnlyAfterEvaluation ==
    [][/\ HandlerRuns =>
            /\ \A e \in 1..Len(evals) : evals[e].out # "exceeded"
            /\ (cfg.enabled /\ cfg.auto_check /\ req.route \notin cfg.exempt_routes) =>
                 /\ Wrappers(req.route) > 0 =>
                      /\ rstate.complete
                      /\ \E e \in 1..Len(evals) : ~evals[e].in_middleware
                 /\ Wrappers(req.route) = 0 =>
                      \E e \in 1..Len(evals) : evals[e].in_middleware
                 /\ LastEval.out = "ok" \/ (LastEval.out = "error" /\ cfg.swallow_errors)
       /\ (Evaluates /\ evals'[Len(evals')].out = "exceeded") =>
            /\ resp'.status = 429
            /\ pc' \in {"mw_post", "done"}
            /\ ~rstate'.complete
       /\ (pc \in {"mw_post", "done"} /\ resp.status = 429) => ~HandlerRuns]_vars

(* C20's case: a request to a decorated route has been rejected by the     *)
(* decorator's pass and answered 429, its handler not having run.          *)
C20_Witness ==
    /\ pc = "done" /\ resp.status = 429
    /\ Wrappers(req.route) > 0 /\ depth = 0
    /\ evals # <<>> /\ ~LastEval.in_middleware /\ LastEval.out = "exceeded"

(* C21: with no in-memory fallback, a request whose evaluation raised an   *)
(* exception other than RateLimitExceeded is answered with that error by   *)
(* default, and with swallow_errors goes on as allowed: its handler runs   *)
(* and the handler's response is returned.                                 *)
C21_SwallowedErrorProceeds ==
    (/\ ~cfg.in_memory_fallback_enabled
     /\ evals # <<>> /\ LastEval.out = "error") =>
       IF cfg.swallow_errors
       THEN /\ pc \notin {"idle", "middleware"}
            /\ pc = "done" => resp.status = 200
       ELSE pc = "done" /\ resp.status = 500

(* C21's case: the backend raised, the error was swallowed, the handler    *)
(* has run and the request has been answered.                              *)
C21_Witness ==
    /\ ~cfg.in_memory_fallback_enabled /\ cfg.swallow_errors
    /\ pc = "done" /\ depth = 0 /\ rstate.complete
    /\ Len(evals) = 1 /\ LastEval.out = "error"

-----------------------------------------------------------------------------
(* C22: a malformed limit string is fatal where it is parsed: decorating   *)
(* a handler with a static limit string that does not parse raises, and no *)
(* wrapper is mounted (the limit is never dropped with the route served    *)
(* without it).                                                            *)
C22_MalformedStringIsFatal ==
    \A i \in 1..Len(cfg.decorations) :
       cfg.decorations[i].limit_value = "invalid" =>
          cfg.decorations[i].raised /\ cfg.decorations[i].wrapper = "none"

(* A handler with a request parameter was decorated with a malformed       *)
(* string: the decoration returned a wrapper, and the route is served with *)
(* no limit of its own.                                                    *)
C22_Witness ==
    \E i \in 1..Len(cfg.decorations) :
       LET d == cfg.decorations[i]
       IN /\ d.limit_value = "invalid" /\ d.signature = "request"
          /\ ~d.raised /\ d.wrapper # "none"
          /\ d.name \in cfg.routes
          /\ Lookup(cfg.route_limits, d.name, <<>>) = <<>>
          /\ d.name \notin DOMAIN cfg.dynamic_route_limits

-----------------------------------------------------------------------------
(* C23: a provider that needs the key and is resolved with no request      *)
(* (the limits could not be listed) is raised to the caller at once: the   *)
(* request ends there with the error, nothing is evaluated after it, and   *)
(* the storage is not declared dead for it.                                *)
C23_ConfigurationErrorRaised ==
    \A i \in 1..Len(evals) :
       ~evals[i].resolved =>
          /\ i = Len(evals)
          /\ pc = "done" /\ resp.status = 500
          /\ storage_dead = evals[i].dead_before

(* The keyed default provider raised with a healthy storage; the storage   *)
(* was declared dead and the request evaluated again, on the fallback      *)
(* limits.                                                                 *)
C23_Witness ==
    /\ Len(evals) = 2
    /\ ~evals[1].resolved /\ ~evals[1].dead_before /\ backend_up
    /\ storage_dead
    /\ evals[2].resolved /\ evals[2].fb_limits /\ evals[2].out = "ok"

-----------------------------------------------------------------------------
(* The keys of the counters an evaluation hit. *)
HitKeys(ev) ==
    {KeyFor(ev.hits[i].lim.limit, ev.hits[i].args) :
        i \in {j \in 1..Len(ev.hits) : ev.hits[j].res \in {"ok", "exceeded"}}}

(* C24: the limits are evaluated in the order in which they were           *)
(* assembled and the evaluation stops at the first failing limit: when a   *)
(* request is rejected, the limits dealt with are the first ones of the    *)
(* list, in order, the failing one is the last of them, and no counter     *)
(* other than theirs has changed.                                          *)
C24_StopsAtFirstFailure ==
    [][Evaluates =>
         LET ev == evals'[Len(evals')]
             old == IF ev.use_fb THEN fb_storage ELSE storage
             new == IF ev.use_fb THEN fb_storage' ELSE storage'
             n == Len(ev.hits)
         IN ev.out = "exceeded" =>
              /\ n \in 1..Len(ev.limits)
              /\ \A i \in 1..n : ev.hits[i].lim = ev.limits[i]
              /\ ev.hits[n].res = "exceeded"
              /\ \A i \in 1..(n - 1) : ev.hits[i].res \in {"ok", "skipped"}
              /\ \A k \in DOMAIN new :
                   k \notin HitKeys(ev) => k \in DOMAIN old /\ new[k] = old[k]]_vars

(* C24's case: the first of two limits failed; the counter of the second,  *)
(* which an earlier request of the window had raised, is what it was.      *)
C24_Witness ==
    /\ evals # <<>> /\ LastEval.out = "exceeded"
    /\ Len(LastEval.hits) = 1 /\ Len(LastEval.limits) = 2
    /\ LET later == LastEval.limits[2]
       IN /\ later.limit # LastEval.limits[1].limit
          /\ \E k \in DOMAIN storage :
               /\ k[2] = later.limit.amount /\ k[3] = later.limit.window
               /\ storage[k].count \in 1..later.limit.amount

-----------------------------------------------------------------------------
-----------------------------------------------------------------------------
(* Routes with a limit registered by a decorator, static or dynamic. *)
DecoratedRoutes == DOMAIN cfg.route_limits \cup DOMAIN cfg.dynamic_route_limits

(* C26: the middleware does not evaluate a request to a route that has a   *)
(* limit registered by a decorator, static or dynamic: no pass of the      *)
(* evaluation for such a request is a middleware pass.                     *)
C26_MiddlewareLeavesDecoratedRoutes ==
    \A i \in 1..Len(evals) :
       req.route \in DecoratedRoutes => ~evals[i].in_middleware

(* A request to a route whose only limit is dynamic: the middleware pass   *)
(* hit the default limit on the backend, and the wrapper then evaluated    *)
(* the request again.                                                      *)
C26_Witness ==
    /\ req.route \in DOMAIN cfg.dynamic_route_limits
    /\ req.route \notin DOMAIN cfg.route_limits
    /\ Len(evals) = 2
    /\ evals[1].in_middleware /\ evals[1].out = "ok"
    /\ \E h \in 1..Len(evals[1].hits) : evals[1].hits[h].res = "ok"
    /\ ~evals[2].in_middleware

-----------------------------------------------------------------------------
(* The limits a pass has hit on the primary backend, with their key-parts. *)
PrimaryHits(ev) ==
    {<<ev.hits[i].lim, ev.hits[i].args>> :
        i \in {j \in 1..Len(ev.hits) :
                  ~ev.hits[j].fb /\ ev.hits[j].res \in {"ok", "exceeded"}}}

(* C27: while one request is handled, each candidate limit is hit at most  *)
(* once on the primary backend, whatever passes, retries and probes the    *)
(* request goes through: no two passes hit the same limit for the same     *)
(* key-parts.                                                              *)
C27_HitOncePerRequest ==
    \A i, j \in 1..Len(evals) :
       i < j => PrimaryHits(evals[i]) \cap PrimaryHits(evals[j]) = {}

(* The first request to the application: the default limit was hit by the  *)
(* middleware pass and again by the wrapper's pass, and its counter is 2.  *)
C27_Witness ==
    /\ nreq = 1 /\ Len(evals) = 2
    /\ \E h \in PrimaryHits(evals[1]) \cap PrimaryHits(evals[2]) :
         /\ IsDefaultLimit(h[1])
         /\ storage[KeyFor(h[1].limit, h[2])].count = 2

-----------------------------------------------------------------------------
(* C28: an exception other than RateLimitExceeded makes one call of the    *)
(* check evaluate the request at most once more: a call runs at most two   *)
(* passes, and the second one, the retry, runs on the fallback path.       *)
C28_AtMostOneRetry ==
    [][Evaluates =>
         LET passes == Len(evals') - Len(evals)
         IN /\ passes <= 2
            /\ passes = 2 => evals'[Len(evals')].use_fb]_vars

(* One call of the check ran three passes: the first raised, the retry     *)
(* probed the backend, found it alive and raised in its turn, which        *)
(* started a second retry, on the fallback limits.                         *)
C28_Witness ==
    /\ Len(evals) = 3
    /\ \A i \in 1..3 : evals[i].in_middleware
    /\ evals[1].out = "error" /\ ~evals[1].dead_before
    /\ evals[2].out = "error" /\ evals[2].dead_before /\ evals[2].probe = "ok"
    /\ evals[3].dead_before /\ evals[3].use_fb /\ evals[3].out = "ok"

-----------------------------------------------------------------------------
(* A pass of the check for which the storage is dead, with the fallback    *)
(* limiter there and the pass not the middleware's of a marked route: the  *)
(* pass that may probe the backend.                                        *)
ProbingPass ==
    /\ Evaluates
    /\ storage_dead /\ cfg.in_memory_fallback_enabled
    /\ ~(evals'[Len(evals) + 1].in_middleware
         /\ req.route \in DOMAIN cfg.marked_for_limiting)

(* C29 as claimed: while the storage is dead, check() is called only when  *)
(* now - lastProbe > 2^probeCount; a probe adds one to probeCount (which a *)
(* successful check() then resets) and sets lastProbe to now; when         *)
(* now - lastProbe <= 2^probeCount neither field changes.                  *)
C29_ProbeWhenDue ==
    [][ProbingPass =>
         LET ev == evals'[Len(evals) + 1]
             due == now - last_check_backend > Pow2(check_backend_count)
         IN /\ ev.probe # "none" =>
                 /\ due
                 /\ last_check_backend' = now
                 /\ check_backend_count' =
                      IF ev.probe = "ok" THEN 0 ELSE check_backend_count + 1
            /\ ~due => UNCHANGED <<check_backend_count, last_check_backend>>]_vars

(* C29, amended: the same with probeCount first reset to 0 when it is      *)
(* above MAX_BACKEND_CHECKS: check() is called exactly when                *)
(* now - lastProbe > 2^probeCount for the probeCount so reset; a probe     *)
(* adds one to it and sets lastProbe to now; with no probe lastProbe is    *)
(* unchanged and probeCount is unchanged but for that reset.               *)
C29_ProbeWhenDueAfterReset ==
    [][ProbingPass =>
         LET ev == evals'[Len(evals) + 1]
             count == IF check_backend_count > MAX_BACKEND_CHECKS
                      THEN 0 ELSE check_backend_count
             due == now - last_check_backend > Pow2(count)
         IN /\ ev.probe # "none" <=> due
            /\ due =>
                 /\ last_check_backend' = now
                 /\ check_backend_count' = IF ev.probe = "ok" THEN 0 ELSE count + 1
            /\ ~due =>
                 /\ last_check_backend' = last_check_backend
                 /\ check_backend_count' = count]_vars

(* C29's case: the counter was above MAX_BACKEND_CHECKS; the pass probed   *)
(* the backend two seconds after the last probe, in vain, and the counter  *)
(* is 1.                                                                   *)
C29_Witness ==
    /\ Len(evals) = 1
    /\ LastEval.dead_before /\ LastEval.count_before = MAX_BACKEND_CHECKS + 1
    /\ LastEval.probe = "failed"
    /\ now = 2 /\ last_check_backend = now
    /\ check_backend_count = 1
    /\ storage_dead

-----------------------------------------------------------------------------
(* C30: a probe whose check() returns true (the backend is up) clears      *)
(* storage_dead and the counter of the backoff, and the pass evaluates the *)
(* normal limits of the request against the primary backend; a probe whose *)
(* check() returns false leaves storage_dead set, and the pass evaluates   *)
(* the fallback limits (the normal limits, when the fallback is enabled    *)
(* with no limits of its own) against the fallback store.  (ev is the pass *)
(* that probes; if it raises, what follows is the failover of C28.)        *)
C30_ProbeOutcome ==
    [][ProbingPass =>
         LET ev == evals'[Len(evals) + 1]
             normal == AssembleLimits(req, ev.in_middleware)
             fallback == Chain(cfg.in_memory_fallback, NoRequest)
         IN ev.probe # "none" =>
              IF backend_up
              THEN /\ ev.probe = "ok"
                   /\ ~ev.use_fb /\ ~ev.fb_limits /\ ev.limits = normal
                   /\ \A h \in 1..Len(ev.hits) : ~ev.hits[h].fb
                   /\ ev.out # "error" =>
                        /\ ~storage_dead' /\ check_backend_count' = 0
                        /\ fb_storage' = fb_storage
              ELSE /\ ev.probe = "failed"
                   /\ ev.use_fb
                   /\ ev.limits = IF fallback # <<>> THEN fallback ELSE normal
                   /\ ev.fb_limits <=> fallback # <<>>
                   /\ \A h \in 1..Len(ev.hits) : ev.hits[h].fb
                   /\ storage' = storage
                   /\ storage_dead']_vars

(* C30's cases: the backend is up again and the probe of this request      *)
(* found it so: the route's limit was hit on the primary backend and the   *)
(* storage is no longer dead; or the backend is down, the probe failed and *)
(* the fallback limit was hit on the fallback store.                       *)
C30_Witness ==
    /\ Len(evals) = 1 /\ LastEval.dead_before /\ pc = "route"
    /\ Len(LastEval.hits) = 1 /\ LastEval.hits[1].res = "ok"
    /\ req.route \in DOMAIN cfg.route_limits /\ cfg.in_memory_fallback # <<>>
    /\ \/ /\ LastEval.probe = "ok" /\ backend_up
          /\ ~storage_dead /\ check_backend_count = 0
          /\ ~LastEval.hits[1].fb
          /\ LastEval.hits[1].lim = cfg.route_limits[req.route][1]
       \/ /\ LastEval.probe = "failed" /\ ~backend_up
          /\ storage_dead /\ check_backend_count > 0
          /\ LastEval.hits[1].fb
          /\ LastEval.hits[1].lim = cfg.in_memory_fallback[1].limits[1]

-----------------------------------------------------------------------------
(* C31: the counter of the backoff is within 0..MAX_BACKEND_CHECKS + 1;    *)
(* the exponent of the comparison of a pass that consults the backoff is   *)
(* at most MAX_BACKEND_CHECKS; and a counter above MAX_BACKEND_CHECKS is   *)
(* back to 0 at the next consultation (0 after it, or 1 if that one        *)
(* probed in vain).                                                        *)
C31_CounterBounded ==
    /\ check_backend_count \in 0..(MAX_BACKEND_CHECKS + 1)
    /\ \A i \in 1..Len(evals) :
         LET ev == evals[i]
         IN /\ ev.exponent <= MAX_BACKEND_CHECKS
            /\ (ev.exponent # -1 /\ ev.count_before > MAX_BACKEND_CHECKS) =>
                 /\ ev.exponent = 0
                 /\ i = Len(evals) =>
                      check_backend_count = IF ev.probe = "failed" THEN 1 ELSE 0

(* C31's case: a pass found the counter at MAX_BACKEND_CHECKS + 1 and      *)
(* compared with 2^0: one second after the last probe it did not probe,    *)
(* and the counter is 0.                                                   *)
C31_Witness ==
    /\ Len(evals) = 1
    /\ LastEval.count_before = MAX_BACKEND_CHECKS + 1
    /\ LastEval.exponent = 0 /\ LastEval.probe = "none"
    /\ now = 1 /\ last_check_backend = 0
    /\ check_backend_count = 0 /\ storage_dead

-----------------------------------------------------------------------------
(* A step in which a wrapper or the middleware injects the headers of the  *)
(* binding into the handler's response.                                    *)
InjectionStep ==
    /\ \/ pc = "unwind" /\ depth' = depth - 1
       \/ pc = "mw_post" /\ mw_inject /\ pc' = "done"
    /\ enabled /\ cfg.headers_enabled /\ rstate.view.state = "some"

(* C32: when the primary backend fails under the header injection, with    *)
(* fallback limits configured and the storage not yet dead, the storage is *)
(* declared dead, the injection is done again on the fallback, and the     *)
(* response is returned with its headers: the exception does not leave     *)
(* the injection.                                                          *)
C32_InjectionFailsOver ==
    [][(InjectionStep /\ ~storage_dead /\ ~backend_up /\ cfg.in_memory_fallback # <<>>) =>
          /\ storage_dead'
          /\ resp'.status = resp.status
          /\ Len(resp'.limit) = Len(resp.limit) + 1]_vars

(* The backend went down after the evaluation of the request; the wrapper  *)
(* declared the storage dead under the injection, and the request, which   *)
(* had passed and been handled, is answered 500.                           *)
C32_Witness ==
    /\ cfg.in_memory_fallback # <<>> /\ ~cfg.swallow_errors
    /\ pc = "done" /\ resp.status = 500
    /\ Len(evals) = 1 /\ LastEval.out = "ok" /\ ~LastEval.dead_before
    /\ rstate.view.state = "some"
    /\ storage_dead /\ ~backend_up

-----------------------------------------------------------------------------
(* C33: a limit whose key is empty is skipped: it is not hit (no counter   *)
(* is kept under an empty key), it is not the binding, it raises nothing,  *)
(* and the limit after it is dealt with: the request passes or fails by    *)
(* the other limits alone.                                                 *)
C33_EmptyKeySkipped ==
    /\ \A k \in DOMAIN storage \cup DOMAIN fb_storage : k[1][1] # ""
    /\ \A e \in 1..Len(evals) :
         LET ev == evals[e]
         IN \A i \in 1..Len(ev.hits) :
              KeyFunc(ev.hits[i].lim.key_func, req) = "" =>
                 /\ ev.hits[i].res = "skipped" /\ ev.hits[i].cost = 0
                 /\ i < Len(ev.limits) => Len(ev.hits) > i
                 /\ e = Len(evals) =>
                      /\ rstate.view.state = "some" => rstate.view.args[1] # ""
                      /\ i = Len(ev.hits) => ev.out = "ok"
    /\ (cfg = EmptyKeyApp /\ pc = "done") =>
          resp.status = IF LastEval.out = "exceeded" THEN 429 ELSE 200

(* C33's cases: the limit with the empty key was skipped and the limit     *)
(* after it rejected the request; and a request whose only limit has an    *)
(* empty key was served, with no binding.                                  *)
C33_Witness ==
    /\ cfg = EmptyKeyApp /\ pc = "done" /\ Len(evals) = 1
    /\ LastEval.hits[1].res = "skipped"
    /\ \/ /\ req.route = "t2" /\ resp.status = 429
          /\ Len(LastEval.hits) = 2 /\ LastEval.hits[2].res = "exceeded"
       \/ /\ req.route = "t1" /\ resp.status = 200
          /\ rstate.view = ViewNone /\ storage = <<>>

-----------------------------------------------------------------------------
(* C34: with the limiter enabled, whenever a wrapper or the middleware is  *)
(* about to read the binding of the request for the header injection, a    *)
(* binding has been recorded: a limit with its key-parts, or None.         *)
C34_BindingRecordedBeforeInjection ==
    (enabled /\ (\/ pc = "unwind" /\ depth > 0
                 \/ pc = "mw_post" /\ mw_inject)) =>
       rstate.view.state # "unset"

(* A request to a handler that is exempt and carries a limit decorator:    *)
(* the check returned at once, the handler ran, the wrapper read the       *)
(* binding that nothing had recorded, and the request is answered 500.     *)
C34_Witness ==
    /\ enabled /\ req.route \in cfg.exempt_routes /\ Wrappers(req.route) > 0
    /\ pc = "done" /\ resp.status = 500
    /\ evals = <<>> /\ rstate.complete
    /\ rstate.view.state = "unset"

-----------------------------------------------------------------------------
(* The http.response.start messages among those forwarded downstream. *)
Starts(down) == {i \in DOMAIN down : down[i].type = "http.response.start"}
Bodies(down) == {i \in DOMAIN down : down[i].type = "http.response.body"}

(* C35: of every response that passes through the ASGI middleware at most  *)
(* one http.response.start message has been forwarded downstream, it       *)
(* precedes every http.response.body message, exactly one has been         *)
(* forwarded once the application has sent all its messages, and the       *)
(* rate-limit headers have been computed at most once.                     *)
C35_OneStartPerResponse ==
    asgi.phase \in {"app", "error"} =>
       /\ Cardinality(Starts(asgi.down)) <= 1
       /\ asgi.down # <<>> => asgi.down[1].type = "http.response.start"
       /\ asgi.todo = <<>> => Cardinality(Starts(asgi.down)) = 1
       /\ asgi.injections <= 1

(* A response streamed in two body messages through send_wrapper: the      *)
(* start message has gone downstream twice, the second time after a body   *)
(* message, and the headers were computed for each.                        *)
C35_Witness ==
    /\ asgi.phase = "app" /\ asgi.send = "send_wrapper" /\ asgi.todo = <<>>
    /\ Cardinality(Bodies(asgi.down)) = 2
    /\ Cardinality(Starts(asgi.down)) = 2
    /\ asgi.down[3].type = "http.response.start"
    /\ asgi.injections = 2

-----------------------------------------------------------------------------
(* C36: no response carries a rate-limit header twice: each of             *)
(* X-RateLimit-Limit, X-RateLimit-Remaining and X-RateLimit-Reset has been *)
(* added at most once, however many wrappers have run their injection.     *)
C36_HeadersAtMostOnce ==
    /\ Len(resp.limit) <= 1
    /\ Len(resp.remaining) <= 1
    /\ Len(resp.reset) <= 1

(* A request to the handler under two stacked limit decorators has passed: *)
(* both wrappers have injected, and the response carries each header       *)
(* twice.                                                                  *)
C36_Witness ==
    /\ cfg = StackedApp /\ Wrappers(req.route) = 2
    /\ pc = "done" /\ resp.status = 200
    /\ Len(resp.limit) = 2 /\ Len(resp.remaining) = 2 /\ Len(resp.reset) = 2

-----------------------------------------------------------------------------
(* C37: the storage is marked dead only in a limiter whose fallback is     *)
(* enabled and which has a fallback limiter (the assertion of the limiter  *)
(* property holds); every evaluation used the fallback limiter exactly     *)
(* when the storage was marked dead as it ran; a limiter without fallback  *)
(* has evaluated against the primary storage only.                         *)
C37_DeadOnlyWithFallback ==
    /\ storage_dead => (cfg.in_memory_fallback_enabled /\ HasFallbackLimiter)
    /\ \A i \in DOMAIN evals :
          /\ evals[i].use_fb <=> (evals[i].dead_before /\ evals[i].probe # "ok")
          /\ evals[i].dead_before => cfg.in_memory_fallback_enabled
    /\ ~cfg.in_memory_fallback_enabled =>
          /\ fb_storage = <<>>
          /\ \A i \in DOMAIN evals : ~evals[i].use_fb

(* The primary storage failed under a request, the limiter failed over and *)
(* the request passed on the fallback limiter.                             *)
C37_Witness ==
    /\ storage_dead /\ cfg.in_memory_fallback_enabled
    /\ pc = "done" /\ resp.status = 200
    /\ Len(evals) = 2 /\ ~evals[1].use_fb /\ evals[1].out = "error"
    /\ evals[2].use_fb /\ evals[2].out = "ok"
    /\ fb_storage # <<>>

-----------------------------------------------------------------------------
(* C38: when the provider of a thread has been called, the request it was  *)
(* given the key of is the thread's own request, and the limits resolved   *)
(* for the thread are those of its own key.                                *)
C38_ResolvedFromOwnKey ==
    \A t \in DOMAIN conc.threads :
       conc.threads[t].pc = "done" =>
          /\ conc.threads[t].provider_request = conc.threads[t].request
          /\ conc.threads[t].limits =
                Chain(cfg.dynamic_route_limits[conc.threads[t].request.route],
                      conc.threads[t].request)

(* Two requests in flight, one of "user" and one of "admin": the thread of *)
(* "user" called with_request, the thread of "admin" did, and the thread   *)
(* of "user" then resolved its limits with the key "admin".                *)
C38_Witness ==
    \E t \in DOMAIN conc.threads : \E u \in DOMAIN conc.threads :
       /\ t # u
       /\ conc.threads[t].pc = "done" /\ conc.threads[t].request.client = "user"
       /\ conc.threads[u].pc \in {"iter", "done"}
       /\ conc.threads[u].request.client = "admin"
       /\ conc.threads[t].provider_request = conc.threads[u].request
       /\ conc.threads[t].limits[1].limit.amount = 2

-----------------------------------------------------------------------------
(* C39: a decoration that fails for want of a request or websocket         *)
(* parameter leaves the limiter's registries as they were: the static      *)
(* route limits, the dynamic route limits and the handlers marked for      *)
(* limiting.                                                               *)
C39_FailedDecorationRegistersNothing ==
    [][(/\ Len(cfg'.decorations) = Len(cfg.decorations) + 1
        /\ cfg'.decorations[Len(cfg'.decorations)].raised)
       => /\ cfg'.route_limits = cfg.route_limits
          /\ cfg'.dynamic_route_limits = cfg.dynamic_route_limits
          /\ cfg'.marked_for_limiting = cfg.marked_for_limiting]_vars

(* Every decoration of a handler has failed on its signature, and the      *)
(* handler is marked for limiting and has an entry among the route limits. *)
C39_Witness ==
    \E i \in DOMAIN cfg.decorations :
       LET d == cfg.decorations[i]
       IN /\ d.raised /\ d.signature = "none"
          /\ \A j \in DOMAIN cfg.decorations :
                cfg.decorations[j].name = d.name => cfg.decorations[j].raised
          /\ d.name \in DOMAIN cfg.marked_for_limiting
          /\ d.name \in DOMAIN cfg.route_limits \cup DOMAIN cfg.dynamic_route_limits
          /\ d.name \notin cfg.routes

-----------------------------------------------------------------------------
(* C40: whenever the storage is marked dead while the backend answers      *)
(* (and goes on answering), time advancing and requests being evaluated,   *)
(* the storage is eventually not marked dead and a request has been        *)
(* evaluated against the primary storage.                                  *)
C40_ProbingNotPostponedForever ==
    (storage_dead /\ backend_up)
       ~> (~storage_dead /\ evals # <<>> /\ ~LastEval.use_fb /\ LastEval.out = "ok")

(* The backoff stood at its longest (2^MAX_BACKEND_CHECKS seconds), and    *)
(* the probe that was due after it found the storage alive: the request    *)
(* was evaluated against the primary storage.                              *)
C40_Witness ==
    /\ ~storage_dead /\ backend_up /\ check_backend_count = 0
    /\ evals # <<>>
    /\ LastEval.dead_before /\ LastEval.probe = "ok"
    /\ LastEval.exponent = MAX_BACKEND_CHECKS
    /\ ~LastEval.use_fb /\ LastEval.out = "ok"
    /\ last_check_backend = now /\ now > Pow2(MAX_BACKEND_CHECKS)

====
